---- MODULE Spec2Model ----
\* A model of the YouTube search pipeline: the duration classifier and the
\* scoring / merge / filter / sort engine (lib/youtube/videoType.ts and
\* lib/youtube/analysis.ts), the API client's error taxonomy
\* (lib/youtube/client.ts) and the POST route handler that sequences them
\* (app/api/youtube/search/route.ts).
EXTENDS Integers, Sequences, FiniteSets, TLC

\* ------------------------------------------------------------------------
\* Optional values.  A JavaScript value that may be undefined / null is a
\* sequence of length 0 (absent) or 1 (present).
None == <<>>
Some(v) == <<v>>
IsSome(o) == o # <<>>
Get(o) == o[1]

\* ------------------------------------------------------------------------
\* Bounds of the model.
\* Longest list of search items handed to buildAndFilterResults directly.
MaxItems == 3
\* Number of videos the large upstream catalogue holds.
NBulk == 101
\* Longest duration string drawn from the whole alphabet.
MaxDurLen == 4
\* Largest ratio (in hundredths) handed to calcPerformanceScore directly.
MaxRatio == 600
\* Largest view count and channel average handed to calcContributionScore
\* directly.
MaxScoreViews == 31
MaxScoreAvg == 3
\* Largest view count of the video of a one-item call of
\* buildAndFilterResults.
MaxRecordViews == 1010

\* ------------------------------------------------------------------------
\* videoType.ts

VideoTypes == {"shorts", "longform"}

getVideoTypeSearchParams(videoType) ==
    IF videoType = "shorts" THEN <<"short">> ELSE <<"medium", "long">>

\* An ISO 8601 duration string is a sequence of one-character strings.
IsDigit(c) == c \in {"0", "1", "2", "3", "4", "5", "6", "7", "8", "9"}
DigitVal(c) ==
    CASE c = "0" -> 0 [] c = "1" -> 1 [] c = "2" -> 2 [] c = "3" -> 3 [] c = "4" -> 4
      [] c = "5" -> 5 [] c = "6" -> 6 [] c = "7" -> 7 [] c = "8" -> 8 [] c = "9" -> 9

\* The first index at which the literal "PT" occurs at or after i, or 0: the
\* regular expression is not anchored.
RECURSIVE FindPT(_, _)
FindPT(s, i) ==
    IF i + 1 > Len(s) THEN 0
    ELSE IF s[i] = "P" /\ s[i + 1] = "T" THEN i
    ELSE FindPT(s, i + 1)

\* The index after the run of digits that starts at p (\d+ is greedy).
RECURSIVE DigitsEnd(_, _)
DigitsEnd(s, p) == IF p <= Len(s) /\ IsDigit(s[p]) THEN DigitsEnd(s, p + 1) ELSE p

\* parseInt of the digits s[p .. q-1].
RECURSIVE DecimalValue(_, _, _)
DecimalValue(s, p, q) ==
    IF p >= q THEN 0 ELSE DecimalValue(s, p, q - 1) * 10 + DigitVal(s[q - 1])

\* One optional group (?:(\d+)U)? tried at position p: the value captured
\* (0 when the group does not take part: parseInt(undefined ?? "0")) and the
\* position the match continues from.
DurationGroup(s, p, unit) ==
    LET q == DigitsEnd(s, p)
    IN IF q > p /\ q <= Len(s) /\ s[q] = unit
       THEN [val |-> DecimalValue(s, p, q), next |-> q + 1]
       ELSE [val |-> 0, next |-> p]

parseDurationToSeconds(iso8601) ==
    LET i == FindPT(iso8601, 1)
    IN IF i = 0 THEN 0
       ELSE LET h == DurationGroup(iso8601, i + 2, "H")
                m == DurationGroup(iso8601, h.next, "M")
                s == DurationGroup(iso8601, m.next, "S")
            IN h.val * 3600 + m.val * 60 + s.val

matchesVideoTypeSixty(durationISO, videoType) ==
    LET totalSeconds == parseDurationToSeconds(durationISO)
    IN IF videoType = "shorts"
       THEN totalSeconds > 0 /\ totalSeconds <= 60
       ELSE totalSeconds > 60
matchesVideoTypeZeroIsLong(durationISO, videoType) ==
    LET totalSeconds == parseDurationToSeconds(durationISO)
    IN IF videoType = "shorts"
       THEN totalSeconds > 0 /\ totalSeconds <= 180
       ELSE ~(totalSeconds > 0 /\ totalSeconds <= 180)
matchesVideoType(durationISO, videoType) ==
    LET totalSeconds == parseDurationToSeconds(durationISO)
    IN IF videoType = "shorts"
       THEN totalSeconds > 0 /\ totalSeconds <= 180
       ELSE totalSeconds > 180

\* The durations the model uses: 180 s and 181 s.
Dur180 == <<"P", "T", "3", "M">>
Dur181 == <<"P", "T", "3", "M", "1", "S">>

\* ------------------------------------------------------------------------
\* analysis.ts

\* A count of the API (statistics.viewCount, statistics.subscriberCount) is
\* an optional decimal string of an unsigned integer: parseInt(x ?? "0").
ParseCount(c) == IF IsSome(c) THEN Get(c) ELSE 0

\* A ratio that went through toFixed(2) is held in hundredths.
\* parseFloat((viewCount / subscriberCount).toFixed(2)): the nearest
\* hundredth, the larger one on a tie.  (A tie of the exact quotient that
\* the double does not hold exactly needs a subscriber count that is a
\* multiple of 40; the counts of this model are smaller.)
ToFixed2(viewCount, subscriberCount) ==
    (200 * viewCount + subscriberCount) \div (2 * subscriberCount)

ScoreInfo(score) ==
    [score |-> score,
     label |-> CASE score = 5 -> "Excellent" [] score = 4 -> "Great"
                 [] score = 3 -> "Good" [] score = 2 -> "Normal" [] OTHER -> "Bad"]

\* The argument is a ratio in hundredths.
calcPerformanceScoreTiersSwapped(viewToSubscriberRatio) ==
    IF viewToSubscriberRatio >= 500 THEN ScoreInfo(5)
    ELSE IF viewToSubscriberRatio >= 300 THEN ScoreInfo(3)
    ELSE IF viewToSubscriberRatio >= 100 THEN ScoreInfo(4)
    ELSE IF viewToSubscriberRatio >= 50 THEN ScoreInfo(2)
    ELSE ScoreInfo(1)
calcPerformanceScore(viewToSubscriberRatio) ==
    IF viewToSubscriberRatio >= 500 THEN ScoreInfo(5)
    ELSE IF viewToSubscriberRatio >= 300 THEN ScoreInfo(4)
    ELSE IF viewToSubscriberRatio >= 100 THEN ScoreInfo(3)
    ELSE IF viewToSubscriberRatio >= 50 THEN ScoreInfo(2)
    ELSE ScoreInfo(1)

\* ratio = viewCount / channelAvgViews is not rounded: its comparisons are
\* those of the exact quotient.
calcContributionScoreWholeRatio(viewCount, channelAvgViews) ==
    IF channelAvgViews <= 0 THEN None
    ELSE IF viewCount \div channelAvgViews >= 10 THEN Some(ScoreInfo(5))
    ELSE IF viewCount \div channelAvgViews >= 5 THEN Some(ScoreInfo(4))
    ELSE IF viewCount \div channelAvgViews >= 1 THEN Some(ScoreInfo(3))
    ELSE Some(ScoreInfo(1))
calcContributionScore(viewCount, channelAvgViews) ==
    IF channelAvgViews <= 0 THEN None
    ELSE IF viewCount >= 10 * channelAvgViews THEN Some(ScoreInfo(5))
    ELSE IF viewCount >= 5 * channelAvgViews THEN Some(ScoreInfo(4))
    ELSE IF viewCount >= channelAvgViews THEN Some(ScoreInfo(3))
    ELSE IF 2 * viewCount >= channelAvgViews THEN Some(ScoreInfo(2))
    ELSE Some(ScoreInfo(1))

\* filtered.reduce((sum, v) => sum + parseInt(v.statistics.viewCount ?? "0"), 0)
RECURSIVE SumViews(_)
SumViews(videos) ==
    IF videos = <<>> THEN 0
    ELSE ParseCount(Head(videos).viewCount) + SumViews(Tail(videos))

\* Math.round(totalViews / filtered.length): the nearest integer, the larger
\* one on a tie.
calcChannelAvgViewsAllSamples(videoSamples, videoType) ==
    IF Len(videoSamples) = 0 THEN 0
    ELSE (2 * SumViews(videoSamples) + Len(videoSamples)) \div (2 * Len(videoSamples))
calcChannelAvgViews(videoSamples, videoType) ==
    LET filtered == SelectSeq(videoSamples, LAMBDA v : matchesVideoType(v.duration, videoType))
        totalViews == SumViews(filtered)
    IN IF Len(filtered) = 0 THEN 0
       ELSE (2 * totalViews + Len(filtered)) \div (2 * Len(filtered))

\* The positions 1..n of a list of n elements, in order.
Indices(n) == [i \in 1..n |-> i]

\* new Map(items.map(x => [x.id, x])).get(id): the last item of the list
\* with that id.
MapGet(items, id) ==
    LET at == {j \in 1..Len(items) : items[j].id = id}
    IN IF at = {} THEN None
       ELSE Some(items[CHOOSE j \in at : \A k \in at : k <= j])

\* channelAvgMap.get(channelId) ?? null, the map being a function on the
\* channels that have an entry.
AvgGet(channelAvgMap, channelId) ==
    IF channelId \in DOMAIN channelAvgMap THEN Some(channelAvgMap[channelId]) ELSE None

\* The skip conditions of the loop body, in its order.
SubscriberCountIsZero(subscriberCount) == subscriberCount = 0

ExceedsSubscriberCeiling(subscriberCount, filters) ==
    IsSome(filters.maxSubscriberCount) /\ subscriberCount > Get(filters.maxSubscriberCount)

ViewsBelowSubscribersNever(viewCount, subscriberCount) == FALSE
ViewsBelowSubscribersByHalf(viewCount, subscriberCount) == 2 * viewCount < subscriberCount
ViewsBelowSubscribers(viewCount, subscriberCount) == viewCount < subscriberCount

BelowMinViewCountNever(viewCount, filters) == FALSE
BelowMinViewCount(viewCount, filters) ==
    IsSome(filters.minViewCount) /\ viewCount < Get(filters.minViewCount)

ContributionOfDefaulted(viewCount, channelAvgViews) ==
    IF IsSome(channelAvgViews)
    THEN calcContributionScore(viewCount, Get(channelAvgViews))
    ELSE Some(ScoreInfo(1))
ContributionOf(viewCount, channelAvgViews) ==
    IF IsSome(channelAvgViews) /\ Get(channelAvgViews) > 0
    THEN calcContributionScore(viewCount, Get(channelAvgViews))
    ELSE None

\* The record pushed for a search item that passed every check.
VideoResult(searchItem, videoDetail, channelDetail, channelAvgMap) ==
    LET viewCount == ParseCount(videoDetail.viewCount)
        subscriberCount == ParseCount(channelDetail.subscriberCount)
        ratio == ToFixed2(viewCount, subscriberCount)
        channelAvgViews == AvgGet(channelAvgMap, searchItem.channelId)
    IN [id |-> searchItem.videoId,
        channelId |-> searchItem.channelId,
        viewCount |-> viewCount,
        subscriberCount |-> subscriberCount,
        viewToSubscriberRatio |-> ratio,
        duration |-> videoDetail.duration,
        performanceScore |-> calcPerformanceScore(ratio),
        contributionScore |-> ContributionOf(viewCount, channelAvgViews),
        channelAvgViews |-> channelAvgViews]

\* Whether the loop body reaches results.push for this search item.
QualifiesAnyDuration(searchItem, videoItems, channelItems, videoType, filters) ==
    LET videoDetail == MapGet(videoItems, searchItem.videoId)
        channelDetail == MapGet(channelItems, searchItem.channelId)
    IN /\ IsSome(videoDetail) /\ IsSome(channelDetail)
       /\ LET viewCount == ParseCount(Get(videoDetail).viewCount)
              subscriberCount == ParseCount(Get(channelDetail).subscriberCount)
          IN /\ ~SubscriberCountIsZero(subscriberCount)
             /\ ~ExceedsSubscriberCeiling(subscriberCount, filters)
             /\ ~ViewsBelowSubscribers(viewCount, subscriberCount)
             /\ ~BelowMinViewCount(viewCount, filters)
Qualifies(searchItem, videoItems, channelItems, videoType, filters) ==
    LET videoDetail == MapGet(videoItems, searchItem.videoId)
        channelDetail == MapGet(channelItems, searchItem.channelId)
    IN /\ IsSome(videoDetail) /\ IsSome(channelDetail)
       /\ matchesVideoType(Get(videoDetail).duration, videoType)
       /\ LET viewCount == ParseCount(Get(videoDetail).viewCount)
              subscriberCount == ParseCount(Get(channelDetail).subscriberCount)
          IN /\ ~SubscriberCountIsZero(subscriberCount)
             /\ ~ExceedsSubscriberCeiling(subscriberCount, filters)
             /\ ~ViewsBelowSubscribers(viewCount, subscriberCount)
             /\ ~BelowMinViewCount(viewCount, filters)

\* The for loop.  It visits the search items in order and breaks at the
\* first one it reaches with maxResults records pushed, so an item is pushed
\* when it passes the checks and fewer than maxResults items before it did.
CollectResultsNoBudget(searchItems, videoItems, channelItems, videoType, channelAvgMap, filters, maxResults) ==
    LET passes == [i \in 1..Len(searchItems) |->
                      Qualifies(searchItems[i], videoItems, channelItems, videoType, filters)]
        pushed == SelectSeq(Indices(Len(searchItems)), LAMBDA i : passes[i])
    IN [k \in 1..Len(pushed) |->
           VideoResult(searchItems[pushed[k]],
                       Get(MapGet(videoItems, searchItems[pushed[k]].videoId)),
                       Get(MapGet(channelItems, searchItems[pushed[k]].channelId)),
                       channelAvgMap)]

CollectResultsLastOnes(searchItems, videoItems, channelItems, videoType, channelAvgMap, filters, maxResults) ==
    LET passes == [i \in 1..Len(searchItems) |->
                      Qualifies(searchItems[i], videoItems, channelItems, videoType, filters)]
        pushed == SelectSeq(Indices(Len(searchItems)),
                            LAMBDA i : /\ passes[i]
                                       /\ Cardinality({j \in (i + 1)..Len(searchItems) :
                                                          passes[j]}) < maxResults)
    IN [k \in 1..Len(pushed) |->
           VideoResult(searchItems[pushed[k]],
                       Get(MapGet(videoItems, searchItems[pushed[k]].videoId)),
                       Get(MapGet(channelItems, searchItems[pushed[k]].channelId)),
                       channelAvgMap)]

CollectResults(searchItems, videoItems, channelItems, videoType, channelAvgMap, filters, maxResults) ==
    LET passes == [i \in 1..Len(searchItems) |->
                      Qualifies(searchItems[i], videoItems, channelItems, videoType, filters)]
        pushed == SelectSeq(Indices(Len(searchItems)),
                            LAMBDA i : /\ passes[i]
                                       /\ Cardinality({j \in 1..(i - 1) : passes[j]}) < maxResults)
    IN [k \in 1..Len(pushed) |->
           VideoResult(searchItems[pushed[k]],
                       Get(MapGet(videoItems, searchItems[pushed[k]].videoId)),
                       Get(MapGet(channelItems, searchItems[pushed[k]].channelId)),
                       channelAvgMap)]

\* The comparator of results.sort: negative when a goes first.
CompareResultsScoreOnly(a, b) == b.performanceScore.score - a.performanceScore.score
CompareResults(a, b) ==
    IF b.performanceScore.score - a.performanceScore.score # 0
    THEN b.performanceScore.score - a.performanceScore.score
    ELSE b.viewToSubscriberRatio - a.viewToSubscriberRatio

\* Array.prototype.sort is stable: an element goes before another when the
\* comparator puts it first, or when the comparator returns 0 and it came
\* earlier in the array.
SortResults(results) ==
    LET n == Len(results)
        place == [i \in 1..n |->
                     Cardinality({j \in 1..n :
                         \/ CompareResults(results[j], results[i]) < 0
                         \/ CompareResults(results[j], results[i]) = 0 /\ j <= i})]
    IN [k \in 1..n |-> results[CHOOSE i \in 1..n : place[i] = k]]

buildAndFilterResults(searchItems, videoItems, channelItems, videoType, channelAvgMap, filters, maxResults) ==
    SortResults(CollectResults(searchItems, videoItems, channelItems,
                               videoType, channelAvgMap, filters, maxResults))

\* ------------------------------------------------------------------------
\* client.ts

\* What the platform can answer to one call: the data asked for, a non-OK
\* HTTP response (status, errors[0].reason, error.message), no response at
\* all, or an OK response whose body is not JSON.
OkOutcome == [kind |-> "ok", status |-> 200, reason |-> "", message |-> None]
HttpFailure(status, reason, message) ==
    [kind |-> "http", status |-> status, reason |-> reason, message |-> message]
TransportFailure == [kind |-> "transport", status |-> 0, reason |-> "", message |-> None]
BadJson == [kind |-> "badJson", status |-> 200, reason |-> "", message |-> None]

\* The messages of the source, in English.
MsgNetwork == "YouTube API network error"
MsgInvalidKey == "invalid API key"
MsgQuota == "daily quota exceeded"
MsgForbiddenPrefix == "no access: "
MsgNotFound == "resource not found"
MsgDefaultUpstream == "YouTube API error"
MsgJsonSyntax == "SyntaxError: unexpected token"

YouTubeAPIError(message, code, status) ==
    [taxonomy |-> TRUE, message |-> message, code |-> code, status |-> status]

\* errorBody?.error?.errors?.[0]?.reason ?? "unknown"
UpstreamReason(outcome) == IF outcome.reason = "" THEN "unknown" ELSE outcome.reason

\* errorBody?.error?.message ?? the default message
UpstreamMessageDefaultOnly(outcome) == MsgDefaultUpstream
UpstreamMessage(outcome) ==
    IF IsSome(outcome.message) THEN Get(outcome.message) ELSE MsgDefaultUpstream

\* reason === "keyInvalid" || reason === "badRequest"
IsKeyReason(reason) == reason = "keyInvalid" \/ reason = "badRequest"

\* reason === "quotaExceeded" || reason === "dailyLimitExceeded"
IsQuotaReasonNever(reason) == FALSE
IsQuotaReason(reason) == reason = "quotaExceeded" \/ reason = "dailyLimitExceeded"

\* The error youtubeFetch throws for an outcome that is not "ok".
youtubeFetch(outcome) ==
    IF outcome.kind = "transport"
    THEN YouTubeAPIError(<<MsgNetwork>>, "NETWORK_ERROR", None)
    ELSE IF outcome.kind = "badJson"
    THEN [taxonomy |-> FALSE, message |-> <<MsgJsonSyntax>>, code |-> "", status |-> None]
    ELSE LET reason == UpstreamReason(outcome)
             message == UpstreamMessage(outcome)
         IN IF outcome.status = 400 \/ IsKeyReason(reason)
            THEN YouTubeAPIError(<<MsgInvalidKey>>, "INVALID_API_KEY", Some(outcome.status))
            ELSE IF outcome.status = 403
            THEN IF IsQuotaReason(reason)
                 THEN YouTubeAPIError(<<MsgQuota>>, "QUOTA_EXCEEDED", Some(outcome.status))
                 ELSE YouTubeAPIError(<<MsgForbiddenPrefix, message>>, "FORBIDDEN",
                                      Some(outcome.status))
            ELSE IF outcome.status = 404
            THEN YouTubeAPIError(<<MsgNotFound>>, "NOT_FOUND", Some(outcome.status))
            ELSE YouTubeAPIError(<<message>>, "UNKNOWN", Some(outcome.status))

\* ------------------------------------------------------------------------
\* route.ts: constants, request, responses

SearchMaxResults == 50
ChunkSize == 50
HandlerMaxResults == 100
DefaultMaxResults == 30

\* A JSON value of the request body that the handler tests with !v,
\* typeof v and v.trim(): undefined, a (non-zero) number, or a string held
\* as a sequence of characters.
Undef == [t |-> "undefined", s |-> <<>>]
Num == [t |-> "number", s |-> <<"7">>]
Str(s) == [t |-> "string", s |-> s]

RECURSIVE TrimStart(_)
TrimStart(s) == IF s # <<>> /\ Head(s) = " " THEN TrimStart(Tail(s)) ELSE s
RECURSIVE TrimEnd(_)
TrimEnd(s) ==
    IF s # <<>> /\ s[Len(s)] = " " THEN TrimEnd(SubSeq(s, 1, Len(s) - 1)) ELSE s
Trim(s) == TrimEnd(TrimStart(s))

\* !v || typeof v !== "string" || v.trim() === ""
Falsy(v) == v.t = "undefined" \/ (v.t = "string" /\ v.s = <<>>)
MissingOrBlank(v) == Falsy(v) \/ v.t # "string" \/ Trim(v.s) = <<>>

MsgBadFormat == "request format is not valid"
MsgNeedApiKey == "enter an API key"
MsgNeedKeyword == "enter a search keyword"
MsgBadVideoType == "videoType must be 'shorts' or 'longform'"
MsgServerError == "server error, try again later"

\* The message of the 400 response the handler returns before any upstream
\* call, or None when the body passes.
ValidateSkipsApiKey(body) ==
    IF ~body.parsed THEN Some(MsgBadFormat)
    ELSE IF MissingOrBlank(body.keyword) THEN Some(MsgNeedKeyword)
    ELSE IF body.videoType # Some("shorts") /\ body.videoType # Some("longform")
    THEN Some(MsgBadVideoType)
    ELSE None
Validate(body) ==
    IF ~body.parsed THEN Some(MsgBadFormat)
    ELSE IF MissingOrBlank(body.apiKey) THEN Some(MsgNeedApiKey)
    ELSE IF MissingOrBlank(body.keyword) THEN Some(MsgNeedKeyword)
    ELSE IF body.videoType # Some("shorts") /\ body.videoType # Some("longform")
    THEN Some(MsgBadVideoType)
    ELSE None

calcPublishedAfter(period) ==
    IF period = None \/ period = Some("all") THEN None
    ELSE IF period \in {Some("1month"), Some("3months"), Some("6months"), Some("1year")}
    THEN period
    ELSE None

\* NextResponse.json(body, {status}).
JsonResponse(status, error, code, videos) ==
    [status |-> status, error |-> error, code |-> code, videos |-> videos,
     total |-> IF IsSome(videos) THEN Some(Len(Get(videos))) ELSE None]

StatusMapAllServerError(code) == 500
StatusMapBadGateway(code) ==
    CASE code = "INVALID_API_KEY" -> 401
      [] code = "QUOTA_EXCEEDED" -> 429
      [] code = "FORBIDDEN" -> 403
      [] code = "NOT_FOUND" -> 404
      [] code = "NETWORK_ERROR" -> 502
      [] OTHER -> 500
StatusMap(code) ==
    CASE code = "INVALID_API_KEY" -> 401
      [] code = "QUOTA_EXCEEDED" -> 429
      [] code = "FORBIDDEN" -> 403
      [] code = "NOT_FOUND" -> 404
      [] code = "NETWORK_ERROR" -> 503
      [] code = "UNKNOWN" -> 500
      [] OTHER -> 500

\* The response of the catch block.
CatchResponseGeneric(err) == JsonResponse(500, Some(<<MsgServerError>>), None, None)
CatchResponseLeaksText(err) ==
    IF err.taxonomy
    THEN JsonResponse(StatusMap(err.code), Some(err.message), Some(err.code), None)
    ELSE JsonResponse(500, Some(err.message), None, None)
CatchResponse(err) ==
    IF err.taxonomy
    THEN JsonResponse(StatusMap(err.code), Some(err.message), Some(err.code), None)
    ELSE JsonResponse(500, Some(<<MsgServerError>>), None, None)

\* The filters the handler builds from the body.
HandlerFilters(body) ==
    [minViewCount |-> IF IsSome(body.minViewCount) /\ Get(body.minViewCount) > 0
                      THEN body.minViewCount ELSE None,
     maxSubscriberCount |-> body.maxSubscriberCount]

\* ------------------------------------------------------------------------
\* route.ts: the list utilities of the handler

\* searchResultArrays.flat()
RECURSIVE FlatCollected(_)
FlatCollected(bs) ==
    IF bs = <<>> THEN <<>> ELSE Head(bs).collected \o FlatCollected(Tail(bs))

\* [...new Map(items.map(item => [item.id.videoId, item])).values()]: a key
\* keeps the place of its first item and the value of its last.
MapValuesKeepsAll(items) == items
MapValues(items) ==
    LET firsts == SelectSeq(Indices(Len(items)),
                            LAMBDA i : \A j \in 1..(i - 1) : items[j].videoId # items[i].videoId)
    IN [k \in 1..Len(firsts) |->
           items[CHOOSE j \in 1..Len(items) :
                    /\ items[j].videoId = items[firsts[k]].videoId
                    /\ \A m \in (j + 1)..Len(items) : items[m].videoId # items[j].videoId]]

\* [...new Set(allSearchItems.map(item => item.snippet.channelId))]: the
\* channel ids in the order of their first item.
UniqueChannelIds(items) ==
    LET firsts == SelectSeq(Indices(Len(items)),
                            LAMBDA i : \A j \in 1..(i - 1) : items[j].channelId # items[i].channelId)
    IN [k \in 1..Len(firsts) |-> items[firsts[k]].channelId]

\* The chunks of fetchInChunks: ids.slice(i, i + chunkSize) for i = 0,
\* chunkSize, ...
ChunksOfOneTooMany(ids, chunkSize) ==
    [k \in 1..((Len(ids) + chunkSize - 1) \div chunkSize) |->
        SubSeq(ids, (k - 1) * chunkSize + 1,
               IF k * chunkSize + 1 < Len(ids) THEN k * chunkSize + 1 ELSE Len(ids))]
ChunksOf(ids, chunkSize) ==
    [k \in 1..((Len(ids) + chunkSize - 1) \div chunkSize) |->
        SubSeq(ids, (k - 1) * chunkSize + 1,
               IF k * chunkSize < Len(ids) THEN k * chunkSize ELSE Len(ids))]

\* results.flat()
RECURSIVE FlatItems(_)
FlatItems(cs) == IF cs = <<>> THEN <<>> ELSE Head(cs).items \o FlatItems(Tail(cs))

\* ------------------------------------------------------------------------
\* The platform behind the client: what each endpoint answers when it
\* answers.  A world is fixed for a request; it is a small catalogue of three
\* videos on two channels, or (bulk) NBulk long videos on one channel.  The
\* videos 4, 5 and 6 of the small catalogue are on no search page: they are
\* older uploads that only a playlist lists.

PageLayouts ==
    <<[p1 |-> <<>>, next |-> FALSE, p2 |-> <<>>],
      [p1 |-> <<1, 2>>, next |-> FALSE, p2 |-> <<>>],
      [p1 |-> <<1, 2>>, next |-> TRUE, p2 |-> <<2, 3>>],
      [p1 |-> <<3>>, next |-> TRUE, p2 |-> <<>>]>>

ChannelOfVideo(w, videoId) == IF ~w.bulk /\ videoId = 2 THEN "c2" ELSE "c1"

UpstreamSearchItem(w, videoId) ==
    [videoId |-> videoId, channelId |-> ChannelOfVideo(w, videoId)]

\* search.list for the bucket at place b of the request's duration list.
SearchPage(w, b, pageNo) ==
    LET ids == IF w.bulk
               THEN IF b = 1
                    THEN IF pageNo = 1 THEN [i \in 1..SearchMaxResults |-> i]
                         ELSE [i \in 1..SearchMaxResults |-> SearchMaxResults + i]
                    ELSE IF pageNo = 1
                         THEN [i \in 1..(NBulk - 2 * SearchMaxResults) |->
                                  2 * SearchMaxResults + i]
                         ELSE <<>>
               ELSE IF pageNo = 1 THEN PageLayouts[w.layout[b]].p1
                    ELSE PageLayouts[w.layout[b]].p2
    IN [items |-> [i \in 1..Len(ids) |-> UpstreamSearchItem(w, ids[i])],
        next |-> IF pageNo # 1 THEN FALSE
                 ELSE IF w.bulk THEN b = 1
                 ELSE PageLayouts[w.layout[b]].next]

\* videos.list: one item per id.
UpstreamVideo(w, videoId) ==
    [id |-> videoId,
     duration |-> IF w.bulk THEN Dur181
                  ELSE IF (videoId = 3) = (w.durs = "short") THEN Dur181 ELSE Dur180,
     viewCount |-> IF w.bulk THEN Some(2 + (videoId % 3))
                   ELSE CASE videoId = 1 -> Some(6)
                          [] videoId = 4 -> None
                          [] videoId = 5 -> Some(3)
                          [] videoId = 6 -> Some(1)
                          [] OTHER -> Some(2)]

UpstreamVideos(w, ids) == [i \in 1..Len(ids) |-> UpstreamVideo(w, ids[i])]

\* channels.list: one item per id; a channel may lack an uploads playlist.
UpstreamChannel(w, channelId) ==
    [id |-> channelId,
     subscriberCount |-> IF channelId = "c1" THEN Some(1) ELSE Some(2),
     uploads |-> IF channelId = "c2" /\ ~w.c2Uploads THEN None ELSE Some(channelId)]

UpstreamChannels(w, ids) == [i \in 1..Len(ids) |-> UpstreamChannel(w, ids[i])]

\* playlistItems.list: the video ids of the uploads playlist of a channel.
\* The playlist of channel c1 is one of PlaylistKinds.
PlaylistKinds == {"own", "empty", "other", "half", "low"}
UpstreamPlaylist(w, playlistId) ==
    IF playlistId = "c1"
    THEN CASE w.samples = "own" -> <<1, 3>>
           [] w.samples = "empty" -> <<>>
           [] w.samples = "other" -> <<3>>
           [] w.samples = "half" -> <<1, 5>>
           [] w.samples = "low" -> <<4, 4, 6>>
    ELSE <<2>>

Failures ==
    {TransportFailure,
     HttpFailure(400, "keyInvalid", Some("API key not valid")),
     HttpFailure(403, "quotaExceeded", Some("quota exceeded")),
     HttpFailure(403, "forbidden", Some("forbidden by policy")),
     HttpFailure(404, "notFound", Some("not found")),
     HttpFailure(500, "backendError", Some("backend error")),
     BadJson}

Outcomes == {OkOutcome} \cup Failures

\* ------------------------------------------------------------------------
\* State.
VARIABLES
    req,            \* the body of the request (fixed)
    world,          \* what the platform holds (fixed)
    pc,             \* where POST stands: start, search, details, averages, responded
    buckets,        \* one search task per duration bucket: its page in flight, its items
    allSearchItems, \* the search items after the merge by videoId
    chunks,         \* the chunk calls of fetchInChunks, for videos and for channels
    avgTasks,       \* one estimation task per channel that has an uploads playlist
                    \* (failed: history, whether a call of the task failed)
    channelAvgMap,  \* channelId -> average views (a function on the channels set)
    response,       \* None, or Some(the response returned)
    calls,          \* every upstream call issued so far
    logs,           \* the lines written with console.log / console.error
    failures,       \* history: the errors thrown by search and chunk calls, in order
    eIn,            \* the arguments of one direct call of a library function
    eOut            \* None before that call, Some(returned value) after it

vars ==
    <<req, world, pc, buckets, allSearchItems, chunks, avgTasks, channelAvgMap,
      response, calls, logs, failures, eIn, eOut>>

pipelineVars ==
    <<req, world, pc, buckets, allSearchItems, chunks, avgTasks, channelAvgMap,
      response, calls, logs, failures>>

\* A map with no entry.
EmptyMap == [c \in {} |-> 0]

\* An upstream call: the endpoint, what tells it from the other calls, and
\* the credential, which every call hands to youtubeFetch as the key
\* parameter of the URL.
SearchCall(dur, pageNo) ==
    [endpoint |-> "search", dur |-> dur, page |-> pageNo, chunk |-> 0,
     videoIds |-> <<>>, channelIds |-> <<>>, playlistId |-> "",
     key |-> req.apiKey.s]
VideosCall(ids, k, playlistId) ==
    [endpoint |-> "videos", dur |-> "", page |-> 0, chunk |-> k,
     videoIds |-> ids, channelIds |-> <<>>, playlistId |-> playlistId,
     key |-> req.apiKey.s]
ChannelsCall(ids, k) ==
    [endpoint |-> "channels", dur |-> "", page |-> 0, chunk |-> k,
     videoIds |-> <<>>, channelIds |-> ids, playlistId |-> "",
     key |-> req.apiKey.s]
PlaylistCall(playlistId) ==
    [endpoint |-> "playlistItems", dur |-> "", page |-> 0, chunk |-> 0,
     videoIds |-> <<>>, channelIds |-> <<>>, playlistId |-> playlistId,
     key |-> req.apiKey.s]

\* ------------------------------------------------------------------------
\* route.ts: POST

\* The catch block: a taxonomy error is returned with its message and code,
\* anything else is logged and returned as a generic 500.
HandlerCatch(err) ==
    /\ response' = Some(CatchResponse(err))
    /\ pc' = "responded"
    /\ logs' = IF err.taxonomy THEN logs
               ELSE Append(logs, [tag |-> "unexpected", text |-> err.message])

\* Stage 4: filters, buildAndFilterResults, the summary log line, the
\* success response.
Finish(cs, avgMap) ==
    LET results == buildAndFilterResults(allSearchItems, FlatItems(cs.videos),
                                         FlatItems(cs.channels), Get(req.videoType),
                                         avgMap, HandlerFilters(req), HandlerMaxResults)
    IN /\ logs' = Append(logs, [tag |-> "summary", found |-> Len(allSearchItems),
                                filtered |-> Len(results),
                                channelsWithAvg |-> Cardinality(DOMAIN avgMap)])
       /\ response' = Some(JsonResponse(200, None, None, Some(results)))
       /\ pc' = "responded"

\* console.log of the request: the keyword, the category and the period.
RequestLogLineWithKey(body) ==
    [tag |-> "request", keyword |-> body.keyword.s \o body.apiKey.s,
     type |-> Get(body.videoType),
     period |-> IF IsSome(body.uploadPeriod) THEN Get(body.uploadPeriod) ELSE "all"]
RequestLogLine(body) ==
    [tag |-> "request", keyword |-> body.keyword.s, type |-> Get(body.videoType),
     period |-> IF IsSome(body.uploadPeriod) THEN Get(body.uploadPeriod) ELSE "all"]

\* From the start of POST to its first await of an upstream call: the body
\* is parsed and validated, the request is logged and the first page of
\* every duration bucket is asked for.
Receive ==
    /\ pc = "start"
    /\ IF IsSome(Validate(req))
       THEN /\ response' = Some(JsonResponse(400, Some(<<Get(Validate(req))>>), None, None))
            /\ pc' = "responded"
            /\ UNCHANGED <<buckets, calls, logs>>
       ELSE LET durs == getVideoTypeSearchParams(Get(req.videoType))
            IN /\ logs' = Append(logs, RequestLogLine(req))
               /\ buckets' = [b \in 1..Len(durs) |->
                                 [dur |-> durs[b], st |-> "page1", collected |-> <<>>]]
               /\ calls' = calls \cup {SearchCall(durs[b], 1) : b \in 1..Len(durs)}
               /\ pc' = "search"
               /\ UNCHANGED response
    /\ UNCHANGED <<req, world, allSearchItems, chunks, avgTasks, channelAvgMap,
                   failures, eIn, eOut>>

\* After Promise.all of the bucket searches: merge by videoId, return early
\* when nothing was found, else ask for every chunk of video details and of
\* channel details.
StartDetails(bs) ==
    LET items == MapValues(FlatCollected(bs))
        videoIds == [i \in 1..Len(items) |-> items[i].videoId]
        channelIds == UniqueChannelIds(items)
        vcs == ChunksOf(videoIds, ChunkSize)
        ccs == ChunksOf(channelIds, ChunkSize)
    IN /\ allSearchItems' = items
       /\ IF Len(items) = 0
          THEN /\ response' = Some(JsonResponse(200, None, None, Some(<<>>)))
               /\ pc' = "responded"
               /\ UNCHANGED <<chunks, calls>>
          ELSE /\ chunks' =
                    [videos |-> [k \in 1..Len(vcs) |->
                                    [ids |-> vcs[k], st |-> "flight", items |-> <<>>]],
                     channels |-> [k \in 1..Len(ccs) |->
                                    [ids |-> ccs[k], st |-> "flight", items |-> <<>>]]]
               /\ calls' = calls \cup {VideosCall(vcs[k], k, "") : k \in 1..Len(vcs)}
                                 \cup {ChannelsCall(ccs[k], k) : k \in 1..Len(ccs)}
               /\ pc' = "details"
               /\ UNCHANGED response

\* if (page1.nextPageToken): only the first page is asked for its token.
NeedsSecondPageAlways(pageNo, page) == pageNo = 1
NeedsSecondPage(pageNo, page) == pageNo = 1 /\ page.next

\* A search call of bucket b returns.  The bucket's task goes on to its
\* second page or ends, whatever POST has done meanwhile; POST goes on when
\* the last bucket ends and catches the first failure.
SearchReturn(b, outcome) ==
    /\ b \in DOMAIN buckets
    /\ buckets[b].st \in {"page1", "page2"}
    /\ IF outcome.kind = "ok"
       THEN LET pageNo == IF buckets[b].st = "page1" THEN 1 ELSE 2
                page == SearchPage(world, b, pageNo)
                more == NeedsSecondPage(pageNo, page)
                bs == [buckets EXCEPT ![b].st = IF more THEN "page2" ELSE "done",
                                      ![b].collected = @ \o page.items]
            IN /\ buckets' = bs
               /\ IF pc = "search" /\ \A j \in DOMAIN bs : bs[j].st = "done"
                  THEN StartDetails(bs)
                  ELSE /\ calls' = IF more THEN calls \cup {SearchCall(bs[b].dur, 2)}
                                   ELSE calls
                       /\ UNCHANGED <<pc, allSearchItems, chunks, response>>
               /\ UNCHANGED <<logs, failures>>
       ELSE /\ buckets' = [buckets EXCEPT ![b].st = "failed"]
            /\ failures' = Append(failures, youtubeFetch(outcome))
            /\ IF pc = "search"
               THEN HandlerCatch(youtubeFetch(outcome))
               ELSE UNCHANGED <<pc, response, logs>>
            /\ UNCHANGED <<allSearchItems, chunks, calls>>
    /\ UNCHANGED <<req, world, avgTasks, channelAvgMap, eIn, eOut>>

\* After Promise.all of the chunk calls: one estimation task per channel
\* item that has an uploads playlist, each asking for its playlist.
StartAverages(cs) ==
    LET channelItems == FlatItems(cs.channels)
        withUploads == {j \in 1..Len(channelItems) : IsSome(channelItems[j].uploads)}
        ids == {channelItems[i].id : i \in withUploads}
        playlistOf(c) == Get(channelItems[CHOOSE i \in withUploads :
                                            channelItems[i].id = c].uploads)
    IN IF ids = {}
       THEN /\ Finish(cs, channelAvgMap)
            /\ UNCHANGED <<avgTasks, calls>>
       ELSE /\ avgTasks' = [c \in ids |->
                              [st |-> "playlist", playlistId |-> playlistOf(c),
                               sampleIds |-> <<>>, failed |-> FALSE]]
            /\ calls' = calls \cup {PlaylistCall(playlistOf(c)) : c \in ids}
            /\ pc' = "averages"
            /\ UNCHANGED <<response, logs>>

\* A chunk call (kind: videos or channels) returns.
ChunkReturn(kind, k, outcome) ==
    /\ k \in DOMAIN chunks[kind]
    /\ chunks[kind][k].st = "flight"
    /\ IF outcome.kind = "ok"
       THEN LET got == IF kind = "videos"
                       THEN UpstreamVideos(world, chunks[kind][k].ids)
                       ELSE UpstreamChannels(world, chunks[kind][k].ids)
                cs == [chunks EXCEPT ![kind][k].st = "ok", ![kind][k].items = got]
            IN /\ chunks' = cs
               /\ IF /\ pc = "details"
                     /\ \A kk \in {"videos", "channels"} :
                           \A j \in DOMAIN cs[kk] : cs[kk][j].st = "ok"
                  THEN StartAverages(cs)
                  ELSE UNCHANGED <<pc, avgTasks, response, calls, logs>>
               /\ UNCHANGED failures
       ELSE /\ chunks' = [chunks EXCEPT ![kind][k].st = "failed"]
            /\ failures' = Append(failures, youtubeFetch(outcome))
            /\ IF pc = "details"
               THEN HandlerCatch(youtubeFetch(outcome))
               ELSE UNCHANGED <<pc, response, logs>>
            /\ UNCHANGED <<avgTasks, calls>>
    /\ UNCHANGED <<req, world, buckets, allSearchItems, channelAvgMap, eIn, eOut>>

\* What leaves an estimation task's try / catch when one of its calls
\* fails: nothing, the catch block is empty.
EstimationErrorEscapes(outcome) ==
    IF outcome.kind = "ok" THEN None ELSE Some(youtubeFetch(outcome))
EstimationError(outcome) == None

\* channelAvgMap after the task of a channel ends: if (avg > 0) set.
RecordAverageOrReset(avgMap, channelId, outcome, avg) ==
    IF outcome.kind # "ok" THEN EmptyMap
    ELSE IF avg > 0 THEN (channelId :> avg) @@ avgMap
    ELSE avgMap
RecordAverageFirstOnly(avgMap, channelId, outcome, avg) ==
    IF outcome.kind = "ok" /\ avg > 0 /\ DOMAIN avgMap = {}
    THEN (channelId :> avg) @@ avgMap ELSE avgMap
RecordAverage(avgMap, channelId, outcome, avg) ==
    IF outcome.kind = "ok" /\ avg > 0 THEN (channelId :> avg) @@ avgMap ELSE avgMap

AllTasksDone(ts) == \A c \in DOMAIN ts : ts[c].st = "done"

\* The playlist call of channel c's task returns: the task asks for the
\* details of the sampled videos, or ends (no sample, or the call failed).
PlaylistReturn(c, outcome) ==
    /\ c \in DOMAIN avgTasks
    /\ avgTasks[c].st = "playlist"
    /\ LET sampleIds == IF outcome.kind = "ok"
                        THEN UpstreamPlaylist(world, avgTasks[c].playlistId) ELSE <<>>
           more == outcome.kind = "ok" /\ Len(sampleIds) # 0
           ts == [avgTasks EXCEPT ![c].st = IF more THEN "samples" ELSE "done",
                                  ![c].sampleIds = sampleIds,
                                  ![c].failed = outcome.kind # "ok"]
           avgMap == RecordAverage(channelAvgMap, c, outcome, 0)
       IN /\ avgTasks' = ts
          /\ channelAvgMap' = avgMap
          /\ IF pc = "averages" /\ IsSome(EstimationError(outcome))
             THEN HandlerCatch(Get(EstimationError(outcome))) /\ UNCHANGED calls
             ELSE IF more
             THEN /\ calls' = calls \cup {VideosCall(sampleIds, 0, avgTasks[c].playlistId)}
                  /\ UNCHANGED <<pc, response, logs>>
             ELSE IF pc = "averages" /\ AllTasksDone(ts)
             THEN Finish(chunks, avgMap) /\ UNCHANGED calls
             ELSE UNCHANGED <<pc, response, logs, calls>>
    /\ UNCHANGED <<req, world, buckets, allSearchItems, chunks, failures, eIn, eOut>>

\* The sample-details call of channel c's task returns: the average is
\* computed and recorded when positive; POST goes on when the last task ends.
SampleReturn(c, outcome) ==
    /\ c \in DOMAIN avgTasks
    /\ avgTasks[c].st = "samples"
    /\ LET avg == IF outcome.kind = "ok"
                  THEN calcChannelAvgViews(UpstreamVideos(world, avgTasks[c].sampleIds),
                                           Get(req.videoType))
                  ELSE 0
           avgMap == RecordAverage(channelAvgMap, c, outcome, avg)
           ts == [avgTasks EXCEPT ![c].st = "done", ![c].failed = outcome.kind # "ok"]
       IN /\ avgTasks' = ts
          /\ channelAvgMap' = avgMap
          /\ IF pc = "averages" /\ IsSome(EstimationError(outcome))
             THEN HandlerCatch(Get(EstimationError(outcome)))
             ELSE IF pc = "averages" /\ AllTasksDone(ts)
             THEN Finish(chunks, avgMap)
             ELSE UNCHANGED <<pc, response, logs>>
    /\ UNCHANGED <<req, world, buckets, allSearchItems, chunks, calls, failures, eIn, eOut>>


\* ------------------------------------------------------------------------
\* The requests and the worlds of the model.

ValidBody(videoType, minViewCount, maxSubscriberCount) ==
    [parsed |-> TRUE, apiKey |-> Str(<<"k">>), keyword |-> Str(<<" ", "q">>),
     videoType |-> Some(videoType), uploadPeriod |-> None,
     minViewCount |-> minViewCount, maxSubscriberCount |-> maxSubscriberCount]

UnparseableBody ==
    [parsed |-> FALSE, apiKey |-> Undef, keyword |-> Undef, videoType |-> None,
     uploadPeriod |-> None, minViewCount |-> None, maxSubscriberCount |-> None]

\* Bodies with one field missing, of the wrong type, empty or blank.
InvalidBodies ==
    {UnparseableBody}
    \cup {[ValidBody("shorts", None, None) EXCEPT !.apiKey = v] :
            v \in {Undef, Num, Str(<<>>), Str(<<" ">>)}}
    \cup {[ValidBody("shorts", None, None) EXCEPT !.keyword = v] :
            v \in {Undef, Num, Str(<<>>), Str(<<" ", " ">>)}}
    \cup {[ValidBody("shorts", None, None) EXCEPT !.videoType = v] :
            v \in {None, Some("any")}}

RequestFilters == {<<None, None>>, <<Some(6), None>>, <<None, Some(1)>>}

SmallWorlds(nBuckets) ==
    {[bulk |-> FALSE, layout |-> l, durs |-> d, c2Uploads |-> u, samples |-> "own"] :
        l \in [1..nBuckets -> 1..Len(PageLayouts)], d \in {"short", "long"}, u \in BOOLEAN}

BulkWorld ==
    [bulk |-> TRUE, layout |-> <<1, 1>>, durs |-> "long", c2Uploads |-> TRUE, samples |-> "own"]

ChannelIds == {"c1", "c2"}

NoEngineCall == None

PipelineStart ==
    /\ pc = "start"
    /\ buckets = <<>>
    /\ allSearchItems = <<>>
    /\ chunks = [videos |-> <<>>, channels |-> <<>>]
    /\ avgTasks = EmptyMap
    /\ channelAvgMap = EmptyMap
    /\ response = None
    /\ calls = {}
    /\ logs = <<>>
    /\ failures = <<>>

Init ==
    /\ PipelineStart
    /\ eIn = NoEngineCall
    /\ eOut = None
    /\ \/ /\ req \in InvalidBodies
          /\ world \in SmallWorlds(1)
       \/ /\ \E f \in RequestFilters : req = ValidBody("shorts", f[1], f[2])
          /\ world \in SmallWorlds(1)
       \/ /\ \E f \in RequestFilters : req = ValidBody("longform", f[1], f[2])
          /\ world \in SmallWorlds(2)
       \/ /\ req = ValidBody("longform", None, None)
          /\ world = BulkWorld

Next ==
    \/ Receive
    \/ \E b \in DOMAIN buckets, outcome \in Outcomes : SearchReturn(b, outcome)
    \/ \E kind \in {"videos", "channels"} :
          \E k \in DOMAIN chunks[kind], outcome \in Outcomes : ChunkReturn(kind, k, outcome)
    \/ \E c \in ChannelIds, outcome \in Outcomes : PlaylistReturn(c, outcome)
    \/ \E c \in ChannelIds, outcome \in Outcomes : SampleReturn(c, outcome)

Spec == Init /\ [][Next]_vars

\* The handler when every upstream call in flight ends, by returning or by
\* failing, and the handler runs when it can: a step that can be taken is
\* not put off for ever.  No step of the handler undoes another, and a call
\* in flight stays in flight until it ends, so this is the same as every
\* single call ending.
\* The requests are one of every kind and the calls end in one of three ways:
\* with data, with a taxonomy error, with an error outside the taxonomy.
\* The search pages are those that hold at most one video.
LiveLayouts == {1, 4}
LiveOutcomes == {OkOutcome, TransportFailure, BadJson}

LiveWorlds(nBuckets) ==
    {w \in SmallWorlds(nBuckets) : \A b \in 1..nBuckets : w.layout[b] \in LiveLayouts}

InitLive ==
    /\ PipelineStart
    /\ eIn = NoEngineCall
    /\ eOut = None
    /\ \/ /\ req \in InvalidBodies
          /\ world = BulkWorld
       \/ /\ req = ValidBody("shorts", None, None)
          /\ world \in LiveWorlds(1)
       \/ /\ req = ValidBody("longform", None, None)
          /\ world \in LiveWorlds(2)

NextLive ==
    \/ Receive
    \/ \E b \in DOMAIN buckets, outcome \in LiveOutcomes : SearchReturn(b, outcome)
    \/ \E kind \in {"videos", "channels"} :
          \E k \in DOMAIN chunks[kind], outcome \in LiveOutcomes :
              ChunkReturn(kind, k, outcome)
    \/ \E c \in ChannelIds, outcome \in LiveOutcomes : PlaylistReturn(c, outcome)
    \/ \E c \in ChannelIds, outcome \in LiveOutcomes : SampleReturn(c, outcome)

SpecLive == InitLive /\ [][NextLive]_vars /\ WF_vars(NextLive)

\* ------------------------------------------------------------------------
\* The handler in front of channels whose playlists differ: both videos of
\* the first page are found, on two channels, and the playlist of channel c1
\* is every one of PlaylistKinds.

AverageWorlds ==
    {[bulk |-> FALSE, layout |-> l, durs |-> d, c2Uploads |-> u, samples |-> s] :
        l \in {<<2, 1>>, <<2, 2>>}, d \in {"short", "long"}, u \in BOOLEAN,
        s \in PlaylistKinds}

InitAverages ==
    /\ PipelineStart
    /\ eIn = NoEngineCall
    /\ eOut = None
    /\ \E videoType \in VideoTypes : req = ValidBody(videoType, None, None)
    /\ world \in AverageWorlds

SpecAverages == InitAverages /\ [][Next]_vars

\* ------------------------------------------------------------------------
\* buildAndFilterResults on its own: every argument drawn from a bounded set.

SeqsUpTo(S, n) == UNION {[1..k -> S] : k \in 0..n}

EngineVideoIds == {1, 2}
EngineChannelIds == {"c1", "c2"}
EngineChannelOf(videoId) == IF videoId = 2 THEN "c2" ELSE "c1"
EngineSearchItem(videoId) == [videoId |-> videoId, channelId |-> EngineChannelOf(videoId)]

\* A video detail (or none) per video id, a channel detail (or none) per
\* channel id, as the lists that videos.list and channels.list return.
EngineVideoChoices ==
    {None, Some([duration |-> Dur181, viewCount |-> Some(6)])}
    \cup {Some([duration |-> Dur180, viewCount |-> v]) : v \in {Some(1), Some(2), Some(6)}}
EngineChannelChoices(channelId) ==
    {Some([subscriberCount |-> c]) : c \in {Some(1), Some(2)}}
    \cup (IF channelId = "c1" THEN {None, Some([subscriberCount |-> None])} ELSE {})

RECURSIVE DetailList(_, _)
DetailList(choice, ids) ==
    IF ids = <<>> THEN <<>>
    ELSE LET id == Head(ids)
         IN (IF IsSome(choice[id])
             THEN <<[id |-> id] @@ Get(choice[id])>>
             ELSE <<>>) \o DetailList(choice, Tail(ids))

EngineAvgMaps ==
    {m \in UNION {[S -> {0, 3}] : S \in SUBSET EngineChannelIds} :
        "c2" \in DOMAIN m => m["c2"] # 0}

EngineFilters ==
    {[minViewCount |-> None, maxSubscriberCount |-> None],
     [minViewCount |-> Some(6), maxSubscriberCount |-> None],
     [minViewCount |-> None, maxSubscriberCount |-> Some(1)]}

EngineBudgets == {1, DefaultMaxResults}

PipelineIdle ==
    /\ req = UnparseableBody
    /\ world = BulkWorld
    /\ pc = "idle"
    /\ buckets = <<>>
    /\ allSearchItems = <<>>
    /\ chunks = [videos |-> <<>>, channels |-> <<>>]
    /\ avgTasks = EmptyMap
    /\ channelAvgMap = EmptyMap
    /\ response = None
    /\ calls = {}
    /\ logs = <<>>
    /\ failures = <<>>

InitEngine ==
    /\ PipelineIdle
    /\ eOut = None
    /\ \E ids \in SeqsUpTo(EngineVideoIds, MaxItems),
          vc \in [EngineVideoIds -> EngineVideoChoices],
          cc1 \in EngineChannelChoices("c1"),
          cc2 \in EngineChannelChoices("c2"),
          videoType \in VideoTypes,
          avg \in EngineAvgMaps,
          filters \in EngineFilters,
          maxResults \in EngineBudgets :
        eIn = [searchItems |-> [i \in 1..Len(ids) |-> EngineSearchItem(ids[i])],
               videoItems |-> DetailList(vc, <<1, 2>>),
               channelItems |-> DetailList([c \in EngineChannelIds |->
                                               IF c = "c1" THEN cc1 ELSE cc2],
                                           <<"c1", "c2">>),
               videoType |-> videoType,
               channelAvgMap |-> avg,
               filters |-> filters,
               maxResults |-> maxResults]

CallEngine ==
    /\ eIn # NoEngineCall
    /\ eOut = None
    /\ eOut' = Some(buildAndFilterResults(eIn.searchItems, eIn.videoItems, eIn.channelItems,
                                          eIn.videoType, eIn.channelAvgMap, eIn.filters,
                                          eIn.maxResults))
    /\ UNCHANGED eIn
    /\ UNCHANGED pipelineVars

NextEngine == CallEngine

SpecEngine == InitEngine /\ [][NextEngine]_vars

\* ------------------------------------------------------------------------
\* buildAndFilterResults for one search item: a short video with every view
\* count up to MaxRecordViews, on a channel with few or with 201 subscribers.

RecordSubscribers == {1, 2, 3, 201}

InitRecord ==
    /\ PipelineIdle
    /\ eOut = None
    /\ \E views \in 0..MaxRecordViews, subs \in RecordSubscribers :
          eIn = [searchItems |-> <<EngineSearchItem(1)>>,
                 videoItems |-> <<[id |-> 1, duration |-> Dur180, viewCount |-> Some(views)]>>,
                 channelItems |-> <<[id |-> "c1", subscriberCount |-> Some(subs)]>>,
                 videoType |-> "shorts",
                 channelAvgMap |-> EmptyMap,
                 filters |-> [minViewCount |-> None, maxSubscriberCount |-> None],
                 maxResults |-> DefaultMaxResults]

SpecRecord == InitRecord /\ [][NextEngine]_vars

\* ------------------------------------------------------------------------
\* The functions of client.ts, videoType.ts and analysis.ts on their own:
\* one call of one function, its arguments drawn from a bounded set.

\* Non-OK responses: every status with every reason, with and without an
\* upstream message; no response at all; an OK response that is not JSON.
HttpStatuses == {400, 401, 403, 404, 429, 500, 503}
UpstreamReasons ==
    {"", "keyInvalid", "badRequest", "quotaExceeded", "dailyLimitExceeded", "forbidden",
     "notFound"}
UpstreamMessages == {None, Some("upstream text")}
UnitOutcomes ==
    {TransportFailure, BadJson}
    \cup {HttpFailure(st, r, m) : st \in HttpStatuses, r \in UpstreamReasons,
                                  m \in UpstreamMessages}

\* Duration strings: every string over DurAlphabet of at most MaxDurLen
\* characters, and some longer ones.
DurAlphabet == {"P", "T", "H", "M", "S", "0", "1", "3"}
Dur0 == <<"P", "T", "0", "S">>
DurDaysOnly == <<"P", "1", "D">>
LongerDurations ==
    {Dur181, DurDaysOnly, <<"P", "T", "1", "8", "0", "S">>, <<"P", "T", "1", "8", "1", "S">>,
     <<"P", "T", "0", "H", "0", "M", "0", "S">>, <<"P", "T", "1", "H", "0", "M", "1", "S">>,
     <<"P", "T", "2", "M", "5", "9", "S">>}
DurationStrings == SeqsUpTo(DurAlphabet, MaxDurLen) \cup LongerDurations

\* Ratios in hundredths, view counts and channel averages.
ScoreRatios == 0..MaxRatio
ScoreViews == 0..MaxScoreViews
ScoreAverages == (-1)..MaxScoreAvg

UnitInputs ==
    {[fn |-> "youtubeFetch", outcome |-> o] : o \in UnitOutcomes}
    \cup {[fn |-> "matchesVideoType", durationISO |-> d, videoType |-> t] :
            d \in DurationStrings, t \in VideoTypes}
    \cup {[fn |-> "calcPerformanceScore", viewToSubscriberRatio |-> r] : r \in ScoreRatios}
    \cup {[fn |-> "calcContributionScore", viewCount |-> v, channelAvgViews |-> a] :
            v \in ScoreViews, a \in ScoreAverages}

InitUnits ==
    /\ PipelineIdle
    /\ eOut = None
    /\ eIn \in UnitInputs

CallYoutubeFetch ==
    /\ eOut = None
    /\ eIn.fn = "youtubeFetch"
    /\ eOut' = Some(youtubeFetch(eIn.outcome))
    /\ UNCHANGED eIn
    /\ UNCHANGED pipelineVars

CallMatchesVideoType ==
    /\ eOut = None
    /\ eIn.fn = "matchesVideoType"
    /\ eOut' = Some([totalSeconds |-> parseDurationToSeconds(eIn.durationISO),
                     matches |-> matchesVideoType(eIn.durationISO, eIn.videoType)])
    /\ UNCHANGED eIn
    /\ UNCHANGED pipelineVars

CallCalcPerformanceScore ==
    /\ eOut = None
    /\ eIn.fn = "calcPerformanceScore"
    /\ eOut' = Some(calcPerformanceScore(eIn.viewToSubscriberRatio))
    /\ UNCHANGED eIn
    /\ UNCHANGED pipelineVars

CallCalcContributionScore ==
    /\ eOut = None
    /\ eIn.fn = "calcContributionScore"
    /\ eOut' = Some(calcContributionScore(eIn.viewCount, eIn.channelAvgViews))
    /\ UNCHANGED eIn
    /\ UNCHANGED pipelineVars

NextUnits ==
    \/ CallYoutubeFetch
    \/ CallMatchesVideoType
    \/ CallCalcPerformanceScore
    \/ CallCalcContributionScore

SpecUnits == InitUnits /\ [][NextUnits]_vars

\* ------------------------------------------------------------------------
\* Properties of buildAndFilterResults (checked under SpecEngine).

EngineOut == Get(eOut)

\* C1: every record buildAndFilterResults returns comes from a search item
\* of its input whose video detail and channel detail are both in the lists
\* handed over, carries that detail's view count, and has
\* viewCount >= subscriberCount >= 1.
C1_RecordsJoinedAndViewsAtLeastSubscribers ==
    IsSome(eOut) =>
        \A k \in 1..Len(EngineOut) :
            LET r == EngineOut[k]
            IN /\ \E i \in 1..Len(eIn.searchItems) :
                     /\ eIn.searchItems[i].videoId = r.id
                     /\ eIn.searchItems[i].channelId = r.channelId
               /\ \E j \in 1..Len(eIn.videoItems) :
                     /\ eIn.videoItems[j].id = r.id
                     /\ eIn.videoItems[j].viewCount = Some(r.viewCount)
               /\ \E j \in 1..Len(eIn.channelItems) :
                     /\ eIn.channelItems[j].id = r.channelId
                     /\ eIn.channelItems[j].subscriberCount = Some(r.subscriberCount)
               /\ r.viewCount >= r.subscriberCount
               /\ r.subscriberCount >= 1

\* A call that emits a record and drops a search item whose details are both
\* there and whose duration matches, because its views are below its
\* channel's subscribers.
C1_Witness ==
    /\ IsSome(eOut)
    /\ Len(EngineOut) >= 1
    /\ eIn.maxResults > Len(EngineOut)
    /\ \E i \in 1..Len(eIn.searchItems) :
          \E j \in 1..Len(eIn.videoItems), h \in 1..Len(eIn.channelItems) :
             /\ eIn.videoItems[j].id = eIn.searchItems[i].videoId
             /\ eIn.channelItems[h].id = eIn.searchItems[i].channelId
             /\ eIn.videoType = "shorts"
             /\ eIn.videoItems[j].duration = Dur180
             /\ eIn.videoItems[j].viewCount = Some(1)
             /\ eIn.channelItems[h].subscriberCount = Some(2)
             /\ \A k \in 1..Len(EngineOut) : EngineOut[k].id # eIn.searchItems[i].videoId

\* C2: in the list buildAndFilterResults returns, a record that comes before
\* another has a higher performance score, or the same score and a
\* viewToSubscriberRatio that is not lower.
C2_SortedByScoreThenRatio ==
    IsSome(eOut) =>
        \A i, j \in 1..Len(EngineOut) :
            i < j =>
                \/ EngineOut[i].performanceScore.score > EngineOut[j].performanceScore.score
                \/ /\ EngineOut[i].performanceScore.score = EngineOut[j].performanceScore.score
                   /\ EngineOut[i].viewToSubscriberRatio >= EngineOut[j].viewToSubscriberRatio

\* A call whose first two records have the same score and different ratios,
\* and reached the loop in the other order.
C2_Witness ==
    /\ IsSome(eOut)
    /\ Len(EngineOut) >= 2
    /\ EngineOut[1].performanceScore.score = EngineOut[2].performanceScore.score
    /\ EngineOut[1].viewToSubscriberRatio > EngineOut[2].viewToSubscriberRatio
    /\ \E i, j \in 1..Len(eIn.searchItems) :
          /\ i < j
          /\ eIn.searchItems[i].videoId = EngineOut[2].id
          /\ eIn.searchItems[j].videoId = EngineOut[1].id
          /\ \A h \in 1..Len(eIn.searchItems) :
                eIn.searchItems[h].videoId = EngineOut[1].id => h >= j

\* C3: the list buildAndFilterResults returns does not depend on the order
\* of its search items: every permutation of the same search items, with the
\* other arguments unchanged, returns the same sequence of records.
C3_OutputIndependentOfInputOrder ==
    IsSome(eOut) =>
        \A p \in Permutations(1..Len(eIn.searchItems)) :
            buildAndFilterResults([i \in 1..Len(eIn.searchItems) |-> eIn.searchItems[p[i]]],
                                  eIn.videoItems, eIn.channelItems, eIn.videoType,
                                  eIn.channelAvgMap, eIn.filters, eIn.maxResults)
                = EngineOut

\* C5: a returned record has a contribution score exactly when it has a
\* channel average that is greater than 0; a record whose channel has no
\* entry in the channel-average map has neither.
C5_ContributionIffPositiveAverage ==
    IsSome(eOut) =>
        \A k \in 1..Len(EngineOut) :
            LET r == EngineOut[k]
            IN /\ IsSome(r.contributionScore)
                    <=> (IsSome(r.channelAvgViews) /\ Get(r.channelAvgViews) > 0)
               /\ IsSome(r.contributionScore) => Get(r.contributionScore).score \in 1..5
               /\ r.channelId \notin DOMAIN eIn.channelAvgMap
                    => (r.contributionScore = None /\ r.channelAvgViews = None)
               /\ r.channelId \in DOMAIN eIn.channelAvgMap
                    => r.channelAvgViews = Some(eIn.channelAvgMap[r.channelId])

\* A call that returns a record whose channel average is 0 and that has no
\* contribution score, next to a record that has one.
C5_Witness ==
    /\ IsSome(eOut)
    /\ \E k \in 1..Len(EngineOut) :
          /\ EngineOut[k].channelAvgViews = Some(0)
          /\ EngineOut[k].contributionScore = None
    /\ \E k \in 1..Len(EngineOut) : IsSome(EngineOut[k].contributionScore)

\* Whether a search item passes the join and the category, subscriber, view
\* and filter checks, stated on the arguments of the call.
PassesChecks(item) ==
    \E j \in 1..Len(eIn.videoItems), h \in 1..Len(eIn.channelItems) :
        LET views == ParseCount(eIn.videoItems[j].viewCount)
            subs == ParseCount(eIn.channelItems[h].subscriberCount)
        IN /\ eIn.videoItems[j].id = item.videoId
           /\ eIn.channelItems[h].id = item.channelId
           /\ LET seconds == parseDurationToSeconds(eIn.videoItems[j].duration)
              IN IF eIn.videoType = "shorts" THEN seconds > 0 /\ seconds <= 180
                 ELSE seconds > 180
           /\ subs >= 1
           /\ IsSome(eIn.filters.maxSubscriberCount)
                 => subs <= Get(eIn.filters.maxSubscriberCount)
           /\ views >= subs
           /\ IsSome(eIn.filters.minViewCount) => views >= Get(eIn.filters.minViewCount)

\* The first min(maxResults, q) search items that pass, in input order.
FirstPassing ==
    LET passing == SelectSeq(eIn.searchItems, PassesChecks)
    IN SubSeq(passing, 1, IF Len(passing) < eIn.maxResults THEN Len(passing)
                          ELSE eIn.maxResults)

\* C17: the records buildAndFilterResults returns are those of the first
\* min(maxResults, q) search items that pass the checks, in input order,
\* one record per item: the list is never longer than maxResults, and an
\* item after the one that filled the budget has no record.
C17_FirstQualifyingUpToBudget ==
    IsSome(eOut) =>
        /\ Len(EngineOut) = Len(FirstPassing)
        /\ Len(EngineOut) <= eIn.maxResults
        /\ \A id \in EngineVideoIds :
              Cardinality({k \in 1..Len(EngineOut) : EngineOut[k].id = id})
                 = Cardinality({i \in 1..Len(FirstPassing) : FirstPassing[i].videoId = id})

\* A call with budget 1 and two different passing search items: the record
\* is the one of the first.
C17_Witness ==
    /\ IsSome(eOut)
    /\ eIn.maxResults = 1
    /\ Len(EngineOut) = 1
    /\ \E i, j \in 1..Len(eIn.searchItems) :
          /\ i < j
          /\ PassesChecks(eIn.searchItems[i])
          /\ PassesChecks(eIn.searchItems[j])
          /\ eIn.searchItems[i].videoId # eIn.searchItems[j].videoId
          /\ EngineOut[1].id = eIn.searchItems[i].videoId
          /\ \A h \in 1..(i - 1) : ~PassesChecks(eIn.searchItems[h])

\* C18 (checked under SpecRecord): the performance score of a returned
\* record is the tier of the exact quotient viewCount / subscriberCount: 5
\* iff viewCount >= 5 subscriberCount, 4 iff 3 subscriberCount <= viewCount
\* < 5 subscriberCount, 3 iff subscriberCount <= viewCount < 3
\* subscriberCount.
C18_ScoreIsTierOfExactRatio ==
    IsSome(eOut) =>
        \A k \in 1..Len(EngineOut) :
            LET r == EngineOut[k]
                v == r.viewCount
                n == r.subscriberCount
            IN /\ r.performanceScore.score = 5 <=> v >= 5 * n
               /\ r.performanceScore.score = 4 <=> (3 * n <= v /\ v < 5 * n)
               /\ r.performanceScore.score = 3 <=> (n <= v /\ v < 3 * n)

\* ------------------------------------------------------------------------
\* Properties of the handler (checked under Spec).

IsSuccess(r) == r.status = 200 /\ IsSome(r.videos)

MandatoryStagesSucceeded ==
    /\ buckets # <<>>
    /\ \A b \in DOMAIN buckets : buckets[b].st = "done"
    /\ chunks.videos # <<>>
    /\ \A kind \in {"videos", "channels"} :
          \A k \in DOMAIN chunks[kind] : chunks[kind][k].st = "ok"

\* The average of channel c in a run in which no estimation call fails.
ExpectedAvg(c) ==
    calcChannelAvgViews(UpstreamVideos(world, UpstreamPlaylist(world, c)), Get(req.videoType))

\* The map of a run in which no estimation call fails.
ExpectedAvgMap ==
    [c \in {d \in DOMAIN avgTasks : ExpectedAvg(d) > 0} |-> ExpectedAvg(c)]

\* C6: when every search and chunk call succeeded, the response is a success
\* without error whichever estimation calls failed; it lists the videos that
\* the run without estimation failure lists, in that order, and the records
\* of a channel whose estimation failed have no contribution score and no
\* channel average.
C6_EstimationFailuresKeepTheResult ==
    (MandatoryStagesSucceeded /\ IsSome(response)) =>
        LET r == Get(response)
            expected == buildAndFilterResults(allSearchItems, FlatItems(chunks.videos),
                                              FlatItems(chunks.channels), Get(req.videoType),
                                              ExpectedAvgMap, HandlerFilters(req),
                                              HandlerMaxResults)
        IN /\ IsSuccess(r)
           /\ r.error = None
           /\ r.code = None
           /\ Len(Get(r.videos)) = Len(expected)
           /\ \A k \in 1..Len(expected) :
                 LET v == Get(r.videos)[k]
                 IN /\ v.id = expected[k].id
                    /\ v.performanceScore = expected[k].performanceScore
                    /\ (v.channelId \in DOMAIN avgTasks /\ avgTasks[v.channelId].failed)
                         => (v.contributionScore = None /\ v.channelAvgViews = None)

\* A success response after the estimation of both channels failed, with a
\* record of each channel, one of which would have had a contribution score.
C6_Witness ==
    /\ MandatoryStagesSucceeded
    /\ IsSome(response)
    /\ DOMAIN avgTasks = {"c1", "c2"}
    /\ \A c \in DOMAIN avgTasks : avgTasks[c].failed
    /\ ExpectedAvg("c1") > 0
    /\ \A c \in {"c1", "c2"} :
          \E k \in 1..Len(Get(Get(response).videos)) :
             Get(Get(response).videos)[k].channelId = c

\* C7: the entry of a channel in the channel-average map depends on that
\* channel's own estimation only: a channel whose task ended has the entry
\* of the run without failure when its own calls succeeded (none when that
\* average is not positive) and no entry when one of its own calls failed,
\* whatever happened to the other channels and in whatever order.
C7_SiblingEntriesUntouched ==
    \A c \in DOMAIN avgTasks :
        AvgGet(channelAvgMap, c) =
            IF avgTasks[c].st = "done" /\ ~avgTasks[c].failed /\ ExpectedAvg(c) > 0
            THEN Some(ExpectedAvg(c))
            ELSE None

\* One channel's estimation failed and the other channel, whose estimation
\* succeeded, has its entry.
C7_Witness ==
    \E c, d \in DOMAIN avgTasks :
        /\ c # d
        /\ avgTasks[c].st = "done" /\ avgTasks[c].failed
        /\ avgTasks[d].st = "done" /\ ~avgTasks[d].failed
        /\ d \in DOMAIN channelAvgMap
        /\ IsSome(response)

\* C8 as claimed: every taxonomy error thrown by a search or chunk call is
\* the one the error response carries.
C8_EveryTaxonomyFailureCarried ==
    \A i \in 1..Len(failures) :
        failures[i].taxonomy =>
            /\ IsSome(response)
            /\ ~IsSuccess(Get(response))
            /\ Get(response).videos = None
            /\ Get(response).error = Some(failures[i].message)
            /\ Get(response).code = Some(failures[i].code)

\* C8, amended: once a search or chunk call has failed, the response is an
\* error response without result list, never a success; it carries the
\* message and code of the first of these failures when that one is a
\* taxonomy error.
C8_FirstFailureCarried ==
    failures # <<>> =>
        /\ IsSome(response)
        /\ ~IsSuccess(Get(response))
        /\ Get(response).status # 200
        /\ Get(response).videos = None
        /\ Get(response).total = None
        /\ failures[1].taxonomy =>
              /\ Get(response).error = Some(failures[1].message)
              /\ Get(response).code = Some(failures[1].code)

\* A chunk call failed with a taxonomy error after every search call had
\* succeeded, and the response carries it.
C8_Witness ==
    /\ Len(failures) = 1
    /\ failures[1].taxonomy
    /\ failures[1].code = "QUOTA_EXCEEDED"
    /\ \E k \in DOMAIN chunks.videos : chunks.videos[k].st = "failed"
    /\ IsSome(response)
    /\ Get(response).code = Some("QUOTA_EXCEEDED")

\* The body is unparseable, or the credential or the keyword is missing, not
\* a string or blank, or the category is neither shorts nor longform.
BlankValue(v) == v.t # "string" \/ \A i \in 1..Len(v.s) : v.s[i] = " "
InvalidRequest ==
    \/ ~req.parsed
    \/ BlankValue(req.apiKey)
    \/ BlankValue(req.keyword)
    \/ req.videoType \notin {Some("shorts"), Some("longform")}

FetchDone == IsSome(eOut) /\ eIn.fn = "youtubeFetch"
FetchHttp == FetchDone /\ eIn.outcome.kind = "http"

\* C11 as claimed: for every status and every reason, a 403 with a quota
\* reason gives QUOTA_EXCEEDED, every other 403 gives FORBIDDEN, every 404
\* gives NOT_FOUND, and a transport failure gives NETWORK_ERROR.
C11_MappingForEveryCombination ==
    /\ FetchHttp =>
          LET o == eIn.outcome
              quota == o.reason \in {"quotaExceeded", "dailyLimitExceeded"}
          IN /\ (o.status = 403 /\ quota) => Get(eOut).code = "QUOTA_EXCEEDED"
             /\ (o.status = 403 /\ ~quota) => Get(eOut).code = "FORBIDDEN"
             /\ o.status = 404 => Get(eOut).code = "NOT_FOUND"
    /\ (FetchDone /\ eIn.outcome.kind = "transport") => Get(eOut).code = "NETWORK_ERROR"

\* C11, amended: the same mapping for every status and every reason other
\* than keyInvalid and badRequest; with one of these two reasons a 403 or a
\* 404 gives INVALID_API_KEY.  The error is a taxonomy error that keeps the
\* status of the response.
C11_MappingWithoutKeyReason ==
    /\ FetchHttp =>
          LET o == eIn.outcome
              quota == o.reason \in {"quotaExceeded", "dailyLimitExceeded"}
              key == o.reason \in {"keyInvalid", "badRequest"}
          IN /\ Get(eOut).taxonomy
             /\ Get(eOut).status = Some(o.status)
             /\ (o.status = 403 /\ quota) => Get(eOut).code = "QUOTA_EXCEEDED"
             /\ (o.status = 403 /\ ~quota /\ ~key) => Get(eOut).code = "FORBIDDEN"
             /\ (o.status = 404 /\ ~key) => Get(eOut).code = "NOT_FOUND"
             /\ (o.status \in {403, 404} /\ key) => Get(eOut).code = "INVALID_API_KEY"
    /\ (FetchDone /\ eIn.outcome.kind = "transport") =>
          (Get(eOut).taxonomy /\ Get(eOut).code = "NETWORK_ERROR")

\* A 403 whose reason is dailyLimitExceeded, mapped to QUOTA_EXCEEDED.
C11_Witness ==
    /\ FetchHttp
    /\ eIn.outcome.status = 403
    /\ eIn.outcome.reason = "dailyLimitExceeded"
    /\ Get(eOut).code = "QUOTA_EXCEEDED"
    /\ Get(eOut).message = <<MsgQuota>>

\* C12: a non-OK response gives INVALID_API_KEY exactly when its status is
\* 400 or its reason is a malformed-key reason (keyInvalid, badRequest); a
\* response that is not 400, 403 or 404 and has no such reason gives UNKNOWN
\* with the upstream message as its message (the default message when the
\* body holds none).
C12_InvalidKeyOnlyFor400OrKeyReason ==
    FetchHttp =>
        LET o == eIn.outcome
            key == o.reason \in {"keyInvalid", "badRequest"}
        IN /\ Get(eOut).code = "INVALID_API_KEY" <=> (o.status = 400 \/ key)
           /\ (o.status \notin {400, 403, 404} /\ ~key) =>
                 /\ Get(eOut).code = "UNKNOWN"
                 /\ Get(eOut).taxonomy
                 /\ IsSome(o.message) => Get(eOut).message = <<Get(o.message)>>
                 /\ o.message = None => Get(eOut).message = <<MsgDefaultUpstream>>

\* A 503 without a key reason, mapped to UNKNOWN with the upstream message.
C12_Witness ==
    /\ FetchHttp
    /\ eIn.outcome.status = 503
    /\ eIn.outcome.reason = "forbidden"
    /\ IsSome(eIn.outcome.message)
    /\ Get(eOut).code = "UNKNOWN"
    /\ Get(eOut).message = <<Get(eIn.outcome.message)>>

MatchDone == IsSome(eOut) /\ eIn.fn = "matchesVideoType"

\* The seconds of the durations whose value is known by construction.
KnownSeconds(d) ==
    CASE d = Dur180 -> 180
      [] d = Dur181 -> 181
      [] d = <<"P", "T", "1", "8", "0", "S">> -> 180
      [] d = <<"P", "T", "1", "8", "1", "S">> -> 181
      [] d = <<"P", "T", "2", "M", "5", "9", "S">> -> 179
      [] d = <<"P", "T", "1", "H", "0", "M", "1", "S">> -> 3601
      [] d = <<"P", "T", "1", "H">> -> 3600
      [] d = <<"P", "T", "1", "S">> -> 1
      [] d = Dur0 -> 0
      [] OTHER -> -1

\* C13 as claimed: a duration matches shorts exactly when 0 < seconds <= 180
\* and matches longform in every other case, 0 seconds included.
C13_ZeroIsLongform ==
    MatchDone =>
        LET short == Get(eOut).totalSeconds > 0 /\ Get(eOut).totalSeconds <= 180
        IN /\ KnownSeconds(eIn.durationISO) >= 0
                => Get(eOut).totalSeconds = KnownSeconds(eIn.durationISO)
           /\ eIn.videoType = "shorts" => (Get(eOut).matches <=> short)
           /\ eIn.videoType = "longform" => (Get(eOut).matches <=> ~short)

\* C13, amended: a duration matches shorts exactly when 0 < seconds <= 180
\* and matches longform exactly when seconds > 180: 180 matches shorts, 181
\* matches longform, and 0 matches neither.
C13_ZeroMatchesNeither ==
    MatchDone =>
        LET short == Get(eOut).totalSeconds > 0 /\ Get(eOut).totalSeconds <= 180
        IN /\ KnownSeconds(eIn.durationISO) >= 0
                => Get(eOut).totalSeconds = KnownSeconds(eIn.durationISO)
           /\ eIn.videoType = "shorts" => (Get(eOut).matches <=> short)
           /\ eIn.videoType = "longform"
                => (Get(eOut).matches <=> Get(eOut).totalSeconds > 180)
           /\ Get(eOut).totalSeconds = 0 => ~Get(eOut).matches

\* PT3M1S (181 seconds) asked as longform: it matches.
C13_Witness ==
    /\ MatchDone
    /\ eIn.durationISO = Dur181
    /\ eIn.videoType = "longform"
    /\ Get(eOut).totalSeconds = 181
    /\ Get(eOut).matches

\* The regular expression finds no "PT" in the string.
NoPT(d) == ~\E i \in 1..(Len(d) - 1) : d[i] = "P" /\ d[i + 1] = "T"

\* Durations of zero length.
ZeroLengthDurations ==
    {Dur0, <<"P", "T">>, <<"P", "T", "0", "M">>, <<"P", "T", "0", "H", "0", "M", "0", "S">>}

\* buildAndFilterResults for one search item whose video has duration d.
ResultsForDuration(d, videoType) ==
    buildAndFilterResults(<<EngineSearchItem(1)>>,
                          <<[id |-> 1, duration |-> d, viewCount |-> Some(6)]>>,
                          <<[id |-> "c1", subscriberCount |-> Some(1)]>>,
                          videoType, EmptyMap,
                          [minViewCount |-> None, maxSubscriberCount |-> None],
                          DefaultMaxResults)

\* C20: a duration that the expression does not match, or of zero length,
\* decodes to 0 seconds; a duration of 0 seconds does not match longform, a
\* video that has it is not in a longform result, and a longform channel
\* average does not count it.
C20_ZeroSecondsNeverLongform ==
    MatchDone =>
        LET d == eIn.durationISO
            sample == [duration |-> d, viewCount |-> Some(6)]
            other == [duration |-> Dur181, viewCount |-> Some(2)]
        IN /\ (NoPT(d) \/ d \in ZeroLengthDurations) => Get(eOut).totalSeconds = 0
           /\ Get(eOut).totalSeconds = 0 =>
                 /\ eIn.videoType = "longform" => ~Get(eOut).matches
                 /\ ~matchesVideoType(d, "longform")
                 /\ ResultsForDuration(d, "longform") = <<>>
                 /\ calcChannelAvgViews(<<sample>>, "longform") = 0
                 /\ calcChannelAvgViews(<<sample, other>>, "longform") = 2
                 /\ calcChannelAvgViews(<<other, sample>>, "longform") = 2

\* P1D, which the expression does not match, asked as longform: 0 seconds,
\* no match.
C20_Witness ==
    /\ MatchDone
    /\ eIn.durationISO = DurDaysOnly
    /\ eIn.videoType = "longform"
    /\ Get(eOut).totalSeconds = 0
    /\ ~Get(eOut).matches

PerformanceDone == IsSome(eOut) /\ eIn.fn = "calcPerformanceScore"
ContributionDone == IsSome(eOut) /\ eIn.fn = "calcContributionScore"

\* C14: calcPerformanceScore returns a score in 1..5 for every ratio and
\* calcContributionScore for every view count and every average above 0;
\* neither returns a lower score for a larger ratio.
C14_ScoresTotalAndMonotonic ==
    /\ PerformanceDone =>
          /\ Get(eOut).score \in 1..5
          /\ \A r2 \in ScoreRatios :
                eIn.viewToSubscriberRatio < r2
                    => calcPerformanceScore(r2).score >= Get(eOut).score
    /\ (ContributionDone /\ eIn.channelAvgViews > 0) =>
          /\ IsSome(Get(eOut))
          /\ Get(Get(eOut)).score \in 1..5
          /\ \A v2 \in ScoreViews, a2 \in ScoreAverages :
                (a2 > 0 /\ eIn.viewCount * a2 < v2 * eIn.channelAvgViews)
                    => Get(calcContributionScore(v2, a2)).score >= Get(Get(eOut)).score

\* The ratio 2.99, one hundredth below the tier of score 4: score 3.
C14_Witness ==
    /\ PerformanceDone
    /\ eIn.viewToSubscriberRatio = 299
    /\ Get(eOut).score = 3
    /\ calcPerformanceScore(300).score = 4

\* C19: calcContributionScore returns no score for an average of 0 or less,
\* and otherwise 5 iff views >= 10 avg, 4 iff 5 avg <= views < 10 avg, 3 iff
\* avg <= views < 5 avg, 2 iff avg <= 2 views and views < avg, 1 in every
\* other case.
C19_ContributionTiers ==
    ContributionDone =>
        LET v == eIn.viewCount
            a == eIn.channelAvgViews
        IN IF a <= 0 THEN Get(eOut) = None
           ELSE /\ IsSome(Get(eOut))
                /\ Get(Get(eOut)).score = 5 <=> v >= 10 * a
                /\ Get(Get(eOut)).score = 4 <=> (5 * a <= v /\ v < 10 * a)
                /\ Get(Get(eOut)).score = 3 <=> (a <= v /\ v < 5 * a)
                /\ Get(Get(eOut)).score = 2 <=> (a <= 2 * v /\ v < a)
                /\ Get(Get(eOut)).score = 1 <=> 2 * v < a
                /\ Get(Get(eOut)).label =
                      CASE v >= 10 * a -> "Excellent" [] v >= 5 * a -> "Great"
                        [] v >= a -> "Good" [] 2 * v >= a -> "Normal" [] OTHER -> "Bad"

\* Views 1 against an average of 2, half of it: score 2.
C19_Witness ==
    /\ ContributionDone
    /\ eIn.viewCount = 1
    /\ eIn.channelAvgViews = 2
    /\ Get(eOut) = Some(ScoreInfo(2))

\* ------------------------------------------------------------------------
\* More properties of the handler (checked under Spec).

\* Another credential that passes the validation.
OtherCredential == <<"j", "2">>

\* Whether the pieces of key occur, in a row, in text.
Occurs(key, text) ==
    \E i \in 1..(Len(text) - Len(key) + 1) : SubSeq(text, i, i + Len(key) - 1) = key

\* C15: what a run of the pipeline logs and the error message it returns do
\* not depend on the credential: the validation, the request log line and
\* the response are those of the same request with another credential, and
\* the credential occurs in no log line and in no error message, although
\* every upstream call carries it.
C15_CredentialNotInLogsOrErrors ==
    (req.parsed /\ ~MissingOrBlank(req.apiKey)) =>
        LET key == req.apiKey.s
            twin == [req EXCEPT !.apiKey = Str(OtherCredential)]
        IN /\ Validate(twin) = Validate(req)
           /\ \A c \in calls : c.key = key
           /\ \A i \in 1..Len(logs) :
                 /\ logs[i].tag \in {"request", "summary", "unexpected"}
                 /\ logs[i].tag = "request" =>
                       (logs[i] = RequestLogLine(twin) /\ ~Occurs(key, logs[i].keyword))
                 /\ logs[i].tag = "summary" =>
                       DOMAIN logs[i] = {"tag", "found", "filtered", "channelsWithAvg"}
                 /\ logs[i].tag = "unexpected" => ~Occurs(key, logs[i].text)
           /\ (IsSome(response) /\ IsSome(Get(response).error)) =>
                 /\ ~Occurs(key, Get(Get(response).error))
                 /\ failures # <<>> => Get(response) = CatchResponse(failures[1])

\* An error response that passes an upstream message on, after the request
\* was logged and calls carrying the credential were issued.
C15_Witness ==
    /\ IsSome(response)
    /\ Get(response).code = Some("FORBIDDEN")
    /\ Get(response).error = Some(<<MsgForbiddenPrefix, "forbidden by policy">>)
    /\ Len(logs) >= 1
    /\ calls # {}
    /\ \A c \in calls : c.key = req.apiKey.s

\* Texts of errors thrown outside the taxonomy.
InternalErrorTexts == {MsgJsonSyntax, "TypeError: x is not iterable"}

\* C16: when the first error of the pipeline stages is not a taxonomy error,
\* the response has status 500, no code, no result list and the fixed
\* generic message, whatever the text of the error; the text goes to the log.
C16_GenericMessageForUnexpectedError ==
    (failures # <<>> /\ ~failures[1].taxonomy) =>
        /\ response = Some(JsonResponse(500, Some(<<MsgServerError>>), None, None))
        /\ \A text \in InternalErrorTexts :
              CatchResponse([failures[1] EXCEPT !.message = <<text>>]) = Get(response)
        /\ logs[Len(logs)] = [tag |-> "unexpected", text |-> failures[1].message]

\* A search call returned a body that is not JSON: the response is the
\* generic 500 and the log holds the text of the error.
C16_Witness ==
    /\ failures # <<>>
    /\ failures[1].message = <<MsgJsonSyntax>>
    /\ IsSome(response)
    /\ Get(response).status = 500
    /\ Get(response).error = Some(<<MsgServerError>>)
    /\ \E i \in 1..Len(logs) : logs[i].tag = "unexpected"

\* The records of a success response.
ResponseVideos == Get(Get(response).videos)
Succeeded == IsSome(response) /\ IsSuccess(Get(response))

\* C21: every record of a success response has the duration of its video's
\* detail, and that duration is one of the requested category: more than 0
\* and at most 180 seconds for shorts, more than 180 seconds for longform,
\* whichever bucket and page of the search returned the video.
C21_EmittedDurationMatchesCategory ==
    Succeeded =>
        \A k \in 1..Len(ResponseVideos) :
            LET r == ResponseVideos[k]
                seconds == parseDurationToSeconds(r.duration)
            IN /\ r.duration = UpstreamVideo(world, r.id).duration
               /\ Get(req.videoType) = "shorts" => (seconds > 0 /\ seconds <= 180)
               /\ Get(req.videoType) = "longform" => seconds > 180

\* A longform response with a record, in a run whose search (medium or long
\* bucket) returned a video of 180 seconds that passes every other check:
\* that video has no record.
C21_Witness ==
    /\ Succeeded
    /\ Get(req.videoType) = "longform"
    /\ HandlerFilters(req) = [minViewCount |-> None, maxSubscriberCount |-> None]
    /\ Len(ResponseVideos) >= 1
    /\ \E i \in 1..Len(allSearchItems) :
          /\ UpstreamVideo(world, allSearchItems[i].videoId).duration = Dur180
          /\ \A k \in 1..Len(ResponseVideos) : ResponseVideos[k].id # allSearchItems[i].videoId

\* ------------------------------------------------------------------------
\* Properties of the channel averages (checked under SpecAverages).

\* The samples of channel c: the details of the videos its playlist lists.
SamplesOf(c) == UpstreamVideos(world, UpstreamPlaylist(world, avgTasks[c].playlistId))

\* The places of the samples of channel c that are of the requested category.
KeptSamples(c) ==
    {i \in 1..Len(SamplesOf(c)) :
        LET seconds == parseDurationToSeconds(SamplesOf(c)[i].duration)
        IN IF Get(req.videoType) = "shorts" THEN seconds > 0 /\ seconds <= 180
           ELSE seconds > 180}

\* The sum of the view counts of the samples at the places of S.
RECURSIVE KeptViews(_, _)
KeptViews(c, S) ==
    IF S = {} THEN 0
    ELSE LET i == CHOOSE j \in S : TRUE
         IN ParseCount(SamplesOf(c)[i].viewCount) + KeptViews(c, S \ {i})

\* m is the mean of the kept samples of channel c rounded to the nearest
\* integer (up on a tie), the kept set being non-empty.
IsRoundedMean(c, m) ==
    LET n == Cardinality(KeptSamples(c))
        total == KeptViews(c, KeptSamples(c))
    IN n > 0 /\ n * (2 * m - 1) <= 2 * total /\ 2 * total < n * (2 * m + 1)

BatchCalls(endpoint) == {c \in calls : c.endpoint = endpoint /\ c.chunk >= 1}
CallsOf(endpoint) == {c \in calls : c.endpoint = endpoint}

\* How many times id occurs in the list ids.
Occurrences(id, ids) == Cardinality({i \in 1..Len(ids) : ids[i] = id})

\* The chunks of a list of every length up to NBulk: each holds 1 to
\* ChunkSize ids, and chunk k holds the ids from place (k-1) ChunkSize + 1 on.
ChunksOfEveryLength ==
    \A n \in 0..NBulk :
        LET cs == ChunksOf(Indices(n), ChunkSize)
        IN /\ \A k \in 1..Len(cs) : Len(cs[k]) >= 1 /\ Len(cs[k]) <= ChunkSize
           /\ \A i \in 1..n :
                 /\ ((i - 1) \div ChunkSize) + 1 \in 1..Len(cs)
                 /\ cs[((i - 1) \div ChunkSize) + 1][((i - 1) % ChunkSize) + 1] = i
           /\ n = Len(cs) * ChunkSize
                    - (IF Len(cs) = 0 THEN 0 ELSE ChunkSize - Len(cs[Len(cs)]))

\* C23: every videos.list and channels.list call issued carries 1 to 50
\* ids; once the batch stage has started, every video id of the merged
\* search items is in exactly one video chunk call, once, every channel id
\* of theirs in exactly one channel chunk call, once, and a chunk call holds
\* no other id.
C23_ChunkCallsPartitionTheIds ==
    /\ ChunksOfEveryLength
    /\ \A c \in CallsOf("videos") : Len(c.videoIds) >= 1 /\ Len(c.videoIds) <= ChunkSize
    /\ \A c \in CallsOf("channels") :
          Len(c.channelIds) >= 1 /\ Len(c.channelIds) <= ChunkSize
    /\ (chunks.videos # <<>>) =>
          /\ \A i \in 1..Len(allSearchItems) :
                /\ Cardinality({c \in BatchCalls("videos") :
                                    Occurrences(allSearchItems[i].videoId, c.videoIds) = 1}) = 1
                /\ Cardinality({c \in BatchCalls("videos") :
                                    Occurrences(allSearchItems[i].videoId, c.videoIds) # 0}) = 1
                /\ Cardinality({c \in BatchCalls("channels") :
                                    Occurrences(allSearchItems[i].channelId, c.channelIds) = 1}) = 1
                /\ Cardinality({c \in BatchCalls("channels") :
                                    Occurrences(allSearchItems[i].channelId, c.channelIds) # 0}) = 1
          /\ \A c \in BatchCalls("videos") :
                \A j \in 1..Len(c.videoIds) :
                    \E i \in 1..Len(allSearchItems) : allSearchItems[i].videoId = c.videoIds[j]
          /\ \A c \in BatchCalls("channels") :
                \A j \in 1..Len(c.channelIds) :
                    \E i \in 1..Len(allSearchItems) :
                        allSearchItems[i].channelId = c.channelIds[j]
    /\ (chunks.videos = <<>>) => (BatchCalls("videos") = {} /\ BatchCalls("channels") = {})

\* More than 100 video ids: three video chunk calls, two of 50 ids and one
\* of the rest, and one channel chunk call.
C23_Witness ==
    /\ Len(allSearchItems) = NBulk
    /\ Cardinality(BatchCalls("videos")) = 3
    /\ Cardinality({c \in BatchCalls("videos") : Len(c.videoIds) = ChunkSize}) = 2
    /\ \E c \in BatchCalls("videos") : Len(c.videoIds) = NBulk - 2 * ChunkSize
    /\ Cardinality(BatchCalls("channels")) = 1

\* The buckets the category of the request is searched in.
RequestedBuckets ==
    IF req.videoType = Some("shorts") THEN {"short"}
    ELSE IF req.videoType = Some("longform") THEN {"medium", "long"}
    ELSE {}

\* C24: in every step of the handler, the search calls issued so far are
\* first- and second-page calls of the buckets of the requested category
\* (short for shorts, medium and long for longform), at most two per bucket;
\* the first-page calls are all issued in the step that starts the search; a
\* second-page call is issued only in the step in which the first-page call
\* of its bucket returns with a next-page token; and a bucket's task never
\* goes back to a page it has had.
C24_SecondPageAfterFirstWithToken ==
    [][/\ \A c \in CallsOf("search")' :
             /\ c.page \in {1, 2}
             /\ c.dur \in RequestedBuckets
             /\ SearchCall(c.dur, 1) \in calls'
       /\ \A d \in RequestedBuckets :
             Cardinality({c \in CallsOf("search")' : c.dur = d}) <= 2
       /\ (pc = "start" /\ pc' = "search") =>
             CallsOf("search")' = {SearchCall(d, 1) : d \in RequestedBuckets}
       /\ \A c \in CallsOf("search")' \ calls :
             IF c.page = 1 THEN pc = "start"
             ELSE \E b \in DOMAIN buckets :
                     /\ buckets[b].dur = c.dur
                     /\ SearchCall(c.dur, 1) \in calls
                     /\ buckets[b].st = "page1"
                     /\ buckets'[b].st = "page2"
                     /\ buckets'[b].collected = SearchPage(world, b, 1).items
                     /\ SearchPage(world, b, 1).next
       /\ \A b \in DOMAIN buckets :
             /\ buckets[b].st = "page1" => buckets'[b].st \in {"page1", "page2", "done", "failed"}
             /\ buckets[b].st = "page2" => buckets'[b].st \in {"page2", "done", "failed"}
             /\ buckets[b].st \in {"done", "failed"} => buckets'[b] = buckets[b]
             /\ (buckets[b].st = "page1" /\ buckets'[b].st = "done")
                    => ~SearchPage(world, b, 1).next
      ]_vars

\* A longform request whose medium bucket had a second page and whose long
\* bucket had none: three search calls.
C24_Witness ==
    /\ req.videoType = Some("longform")
    /\ \A b \in DOMAIN buckets : buckets[b].st = "done"
    /\ CallsOf("search") =
          {SearchCall("medium", 1), SearchCall("medium", 2), SearchCall("long", 1)}
    /\ Len(buckets[1].collected) > Len(SearchPage(world, 1, 1).items)

\* Every search item the buckets collected, in the order of the buckets.
FoundItems == FlatCollected(buckets)

\* C25: the merged search items hold every video id found exactly once,
\* and no two records of a success response have the same video id, also
\* when a video came back from two buckets or from both pages of a bucket.
C25_NoTwoRecordsShareVideoId ==
    /\ (pc \in {"details", "averages"} \/ Succeeded) =>
          /\ \A i, j \in 1..Len(allSearchItems) :
                allSearchItems[i].videoId = allSearchItems[j].videoId => i = j
          /\ \A i \in 1..Len(FoundItems) :
                \E j \in 1..Len(allSearchItems) :
                    allSearchItems[j].videoId = FoundItems[i].videoId
    /\ Succeeded =>
          \A i, j \in 1..Len(ResponseVideos) :
              ResponseVideos[i].id = ResponseVideos[j].id => i = j

\* Video 2 came back from both pages of the first bucket and from the second
\* bucket; the response has one record of it.
C25_Witness ==
    /\ Succeeded
    /\ Cardinality({i \in 1..Len(buckets[1].collected) :
                        buckets[1].collected[i].videoId = 2}) = 2
    /\ Len(buckets) = 2
    /\ \E i \in 1..Len(buckets[2].collected) : buckets[2].collected[i].videoId = 2
    /\ Cardinality({k \in 1..Len(ResponseVideos) : ResponseVideos[k].id = 2}) = 1

\* What the handler returns when every call succeeds and the calls are made
\* one after the other: the buckets in the order of the duration list, each
\* with its second page after its first, the chunks in order, the channels
\* in order.
SequentialFound ==
    LET durs == getVideoTypeSearchParams(Get(req.videoType))
    IN FlatCollected([b \in 1..Len(durs) |->
           [collected |-> SearchPage(world, b, 1).items
                            \o (IF SearchPage(world, b, 1).next
                                THEN SearchPage(world, b, 2).items ELSE <<>>)]])

SequentialResponse ==
    LET items == MapValues(SequentialFound)
        videoItems == UpstreamVideos(world, [i \in 1..Len(items) |-> items[i].videoId])
        channelItems == UpstreamChannels(world, UniqueChannelIds(items))
        estimated == {i \in 1..Len(channelItems) : IsSome(channelItems[i].uploads)}
        avgOf(i) == calcChannelAvgViews(
                        UpstreamVideos(world,
                                       UpstreamPlaylist(world, Get(channelItems[i].uploads))),
                        Get(req.videoType))
        avgMap == [c \in {channelItems[i].id : i \in {j \in estimated : avgOf(j) > 0}} |->
                      avgOf(CHOOSE i \in estimated : channelItems[i].id = c)]
    IN IF Len(items) = 0 THEN JsonResponse(200, None, None, Some(<<>>))
       ELSE JsonResponse(200, None, None,
                         Some(buildAndFilterResults(items, videoItems, channelItems,
                                                    Get(req.videoType), avgMap,
                                                    HandlerFilters(req), HandlerMaxResults)))

NoCallFailed ==
    /\ failures = <<>>
    /\ \A b \in DOMAIN buckets : buckets[b].st # "failed"
    /\ \A kind \in {"videos", "channels"} :
          \A k \in DOMAIN chunks[kind] : chunks[kind][k].st # "failed"
    /\ \A c \in DOMAIN avgTasks : ~avgTasks[c].failed

\* C26: when no call has failed, what the calls that have returned brought
\* is what the sequential run gets from them, whichever returned first, and
\* the success response is the response of the sequential run: the same
\* records in the same order under every completion order.
C26_ResponseIndependentOfCompletionOrder ==
    NoCallFailed =>
        /\ \A b \in DOMAIN buckets :
              buckets[b].collected =
                  CASE buckets[b].st = "page1" -> <<>>
                    [] buckets[b].st = "page2" -> SearchPage(world, b, 1).items
                    [] buckets[b].st = "done" ->
                         SearchPage(world, b, 1).items
                            \o (IF SearchPage(world, b, 1).next
                                THEN SearchPage(world, b, 2).items ELSE <<>>)
        /\ \A c \in DOMAIN channelAvgMap : channelAvgMap[c] = ExpectedAvg(c)
        /\ Succeeded => Get(response) = SequentialResponse

\* A success response of a run with two buckets, one of them with two
\* pages, and two estimation tasks, none of whose calls failed, with a
\* record of each channel.
C26_Witness ==
    /\ NoCallFailed
    /\ Succeeded
    /\ Len(buckets) = 2
    /\ SearchCall("medium", 2) \in calls
    /\ DOMAIN avgTasks = {"c1", "c2"}
    /\ DOMAIN channelAvgMap = {"c1", "c2"}
    /\ \A c \in {"c1", "c2"} :
          \E k \in 1..Len(ResponseVideos) : ResponseVideos[k].channelId = c

\* A search item whose video is of the requested category and has at least
\* as many views as its channel has subscribers, the channel having some.
PassesCoreChecks(item) ==
    LET seconds == parseDurationToSeconds(UpstreamVideo(world, item.videoId).duration)
        views == ParseCount(UpstreamVideo(world, item.videoId).viewCount)
        subs == ParseCount(UpstreamChannel(world, item.channelId).subscriberCount)
    IN /\ IF Get(req.videoType) = "shorts" THEN seconds > 0 /\ seconds <= 180
          ELSE seconds > 180
       /\ subs >= 1
       /\ views >= subs

\* A search item that meets the filters the request sets.
MeetsSetFilters(item) ==
    LET views == ParseCount(UpstreamVideo(world, item.videoId).viewCount)
        subs == ParseCount(UpstreamChannel(world, item.channelId).subscriberCount)
    IN /\ IsSome(req.maxSubscriberCount) => subs <= Get(req.maxSubscriberCount)
       /\ IsSome(req.minViewCount) => views >= Get(req.minViewCount)

\* C27: every record of a success response meets the filters the request
\* sets (subscriberCount <= maxSubscriberCount, viewCount >= minViewCount);
\* a filter the request does not set drops nothing: below the budget, every
\* search item that passes the core checks and the filters that are set has
\* a record.  A minimum view count of 0 is no filter.
C27_RecordsMeetTheSetFilters ==
    Succeeded =>
        /\ HandlerFilters(req).maxSubscriberCount = req.maxSubscriberCount
        /\ HandlerFilters(req).minViewCount = req.minViewCount
        /\ HandlerFilters([req EXCEPT !.minViewCount = Some(0)]).minViewCount = None
        /\ \A k \in 1..Len(ResponseVideos) :
              LET r == ResponseVideos[k]
              IN /\ IsSome(req.maxSubscriberCount)
                       => r.subscriberCount <= Get(req.maxSubscriberCount)
                 /\ IsSome(req.minViewCount) => r.viewCount >= Get(req.minViewCount)
        /\ Len(ResponseVideos) < HandlerMaxResults =>
              \A i \in 1..Len(allSearchItems) :
                  (PassesCoreChecks(allSearchItems[i]) /\ MeetsSetFilters(allSearchItems[i]))
                      <=> \E k \in 1..Len(ResponseVideos) :
                             ResponseVideos[k].id = allSearchItems[i].videoId

\* A request with a minimum view count of 6: the video with 6 views has a
\* record, the video with 2 views, which passes the core checks, has none.
C27_Witness ==
    /\ Succeeded
    /\ req.minViewCount = Some(6)
    /\ \E k \in 1..Len(ResponseVideos) : ResponseVideos[k].viewCount = 6
    /\ \E i \in 1..Len(allSearchItems) :
          /\ PassesCoreChecks(allSearchItems[i])
          /\ ParseCount(UpstreamVideo(world, allSearchItems[i].videoId).viewCount) = 2
          /\ \A k \in 1..Len(ResponseVideos) : ResponseVideos[k].id # allSearchItems[i].videoId

\* ------------------------------------------------------------------------
\* More properties of buildAndFilterResults (checked under SpecRecord).

\* C28: every record buildAndFilterResults returns has a performance score
\* of 3, 4 or 5 (Good, Great, Excellent): it has viewCount >= subscriberCount,
\* so its rounded ratio is at least 1.00; an item with fewer views than
\* subscribers has no record, so the scores 2 and 1 are not returned.
C28_EmittedScoreAtLeastGood ==
    IsSome(eOut) =>
        LET views == ParseCount(eIn.videoItems[1].viewCount)
            subs == ParseCount(eIn.channelItems[1].subscriberCount)
        IN /\ \A k \in 1..Len(EngineOut) :
                 /\ EngineOut[k].performanceScore.score \in {3, 4, 5}
                 /\ EngineOut[k].performanceScore.label \in {"Good", "Great", "Excellent"}
                 /\ EngineOut[k].viewCount >= EngineOut[k].subscriberCount
                 /\ EngineOut[k].viewToSubscriberRatio >= 100
           /\ views < subs => EngineOut = <<>>
           /\ views >= subs => Len(EngineOut) = 1

\* 201 views on a channel with 201 subscribers: a record with score 3.
C28_Witness ==
    /\ IsSome(eOut)
    /\ eIn.videoItems[1].viewCount = Some(201)
    /\ eIn.channelItems[1].subscriberCount = Some(201)
    /\ Len(EngineOut) = 1
    /\ EngineOut[1].performanceScore = ScoreInfo(3)
    /\ calcPerformanceScore(ToFixed2(150, 201)).score = 2

\* ------------------------------------------------------------------------
\* Properties of the end of a request (checked under Spec and SpecLive).

\* C29: in no step taken after the handler has returned its response is an
\* upstream call issued.
C29_NoCallAfterResponse ==
    [][IsSome(response) => calls' = calls]_vars

\* The statuses of an error response.
ErrorStatuses == {400, 401, 403, 404, 429, 500, 503}

\* A success {videos, total} with total the number of videos, or an error
\* with a message, no result list and one of the error statuses.
WellFormedResponse(r) ==
    \/ /\ r.status = 200
       /\ IsSome(r.videos)
       /\ r.total = Some(Len(Get(r.videos)))
       /\ r.error = None
       /\ r.code = None
    \/ /\ r.status \in ErrorStatuses
       /\ IsSome(r.error)
       /\ r.videos = None
       /\ r.total = None

====
